---- MODULE Spec2Model ----
(***************************************************************************)
(* A model of package commonlib.  The decoder (json decoder file):          *)
(* Result.Get / Result.GetField path lookup, camelCaseToUnderScore name     *)
(* derivation, decodeField scalar coercion and Result.Decode structural     *)
(* decoding.  The database helpers: the connection pool of GetMySQL and     *)
(* putMySQL, DbAction and DbTransactionAction, and buildPager with the row  *)
(* offset of DbPage.                                                        *)
(*                                                                          *)
(* Go strings are sequences of one-character strings (<<"a", ".", "b">>),   *)
(* so that strings.Split, key derivation and fmt.Sprintf are computed.      *)
(* Go integers and floats are signed decimals over digit sequences, so      *)
(* that the 64-bit bounds are represented exactly.                          *)
(***************************************************************************)
EXTENDS Integers, Sequences, FiniteSets, TLC

VARIABLES
    arch,    \* the build's GOARCH: width of int/uint, float-to-int conversion
    order,   \* the order in which the runtime ranges over the maps of the call
    op,      \* the operation that produced the current state
    typ,     \* reflect.Type of the decode target
    res,     \* the Result (source value) of the call
    pre,     \* the target's value before the call
    out,     \* the target's value after the call
    err,     \* the error the call returned
    fields,  \* the path segments of a Get / GetField call
    got,     \* what Get / GetField returned
    str,     \* the identifier given to camelCaseToUnderScore
    key,     \* the key camelCaseToUnderScore returned
    alias,   \* after a call that succeeded: the maps and slices of the target
             \* that are maps and slices of the source, as pairs of paths
    mySQLPool,    \* the package variable mySQLPool: a channel, 0 for nil
    chans,        \* the channels, each the connections it buffers
    maxPoolSize,  \* the configured maxPoolSize
    procs,        \* the callers and the goroutines they start
    conns,        \* the connections, each not yet opened, open or closed
    input,        \* the arguments of a buildPager or DbPage call
    pager         \* the Pager returned, and the parameters DbPage appended

vars == <<arch, order, op, typ, res, pre, out, err, fields, got, str, key,
          alias, mySQLPool, chans, maxPoolSize, procs, conns, input, pager>>

\* The variables of the decoder, and those of the database helpers.
decvars == <<arch, order, typ, res, pre, out, err, fields, got, str, key, alias>>
libvars == <<mySQLPool, chans, maxPoolSize, procs, conns, input, pager>>

\* The database helpers before any call of them.
LibIdle ==
    /\ mySQLPool = 0 /\ chans = <<>> /\ maxPoolSize = 0
    /\ procs = <<>> /\ conns = <<>>
    /\ input = <<>> /\ pager = <<>>

(***************************************************************************)
(* Bounds of the model.                                                     *)
(***************************************************************************)
MaxNameLen == 4      \* longest identifier given to camelCaseToUnderScore
MaxPathLen == 3      \* most segments in a Get / GetField path
MaxArrLen == 2       \* longest array in a generated path tree
MaxMembers == 3      \* most members of a generated struct type

(***************************************************************************)
(* Strings.                                                                 *)
(***************************************************************************)
RECURSIVE SeqsUpTo(_, _)
SeqsUpTo(S, n) ==
    IF n = 0 THEN {<<>>}
    ELSE LET shorter == SeqsUpTo(S, n - 1)
         IN shorter \cup {Append(s, c) : s \in {t \in shorter : Len(t) = n - 1}, c \in S}

\* A string is the sequence of its runes.  A rune is written as the
\* character itself where a string of this language can hold it (ASCII but
\* the grave accent and the control characters other than \t, \n, \f and
\* \r; U+00A1 to U+00FF; U+01C4 to U+01CC; Greek from U+0386 to U+03CE) and
\* by its code point otherwise ("U+0100").  A byte that is part of no rune,
\* as a string that is not UTF-8 holds them, is written "0x80" to "0xFF".
\*
\* Runes lists, in the order of their code points, U+0000 to U+00FF, every
\* rune of category Lu, every rune that unicode.ToLower changes and what it
\* changes it to, U+2028, U+2029 and U+FFFD (Unicode 14.0); CodePoints
\* gives their code points, place by place.  UpperLetters is category Lu;
\* CaseFrom lists the runes that unicode.ToLower changes and CaseTo, place
\* by place, what it changes them to.
Runes ==
    <<"U+0000", "U+0001", "U+0002", "U+0003", "U+0004", "U+0005",
    "U+0006", "U+0007", "U+0008", "\t", "\n", "U+000B", "\f", "\r", "U+000E",
    "U+000F", "U+0010", "U+0011", "U+0012", "U+0013", "U+0014", "U+0015",
    "U+0016", "U+0017", "U+0018", "U+0019", "U+001A", "U+001B", "U+001C",
    "U+001D", "U+001E", "U+001F", " ", "!", "\"", "#", "$", "%", "&", "'",
    "(", ")", "*", "+", ",", "-", ".", "/", "0", "1", "2", "3", "4", "5",
    "6", "7", "8", "9", ":", ";", "<", "=", ">", "?", "@", "A", "B", "C",
    "D", "E", "F", "G", "H", "I", "J", "K", "L", "M", "N", "O", "P", "Q",
    "R", "S", "T", "U", "V", "W", "X", "Y", "Z", "[", "\\", "]", "^", "_",
    "U+0060", "a", "b", "c", "d", "e", "f", "g", "h", "i", "j", "k", "l",
    "m", "n", "o", "p", "q", "r", "s", "t", "u", "v", "w", "x", "y", "z",
    "{", "|", "}", "~", "U+007F", "U+0080", "U+0081", "U+0082", "U+0083",
    "U+0084", "U+0085", "U+0086", "U+0087", "U+0088", "U+0089", "U+008A",
    "U+008B", "U+008C", "U+008D", "U+008E", "U+008F", "U+0090", "U+0091",
    "U+0092", "U+0093", "U+0094", "U+0095", "U+0096", "U+0097", "U+0098",
    "U+0099", "U+009A", "U+009B", "U+009C", "U+009D", "U+009E", "U+009F",
    "U+00A0", "¡", "¢", "£", "¤", "¥", "¦", "§", "¨", "©", "ª", "«", "¬",
    "­", "®", "¯", "°", "±", "²", "³", "´", "µ", "¶", "·", "¸", "¹", "º",
    "»", "¼", "½", "¾", "¿", "À", "Á", "Â", "Ã", "Ä", "Å", "Æ", "Ç", "È",
    "É", "Ê", "Ë", "Ì", "Í", "Î", "Ï", "Ð", "Ñ", "Ò", "Ó", "Ô", "Õ", "Ö",
    "×", "Ø", "Ù", "Ú", "Û", "Ü", "Ý", "Þ", "ß", "à", "á", "â", "ã", "ä",
    "å", "æ", "ç", "è", "é", "ê", "ë", "ì", "í", "î", "ï", "ð", "ñ", "ò",
    "ó", "ô", "õ", "ö", "÷", "ø", "ù", "ú", "û", "ü", "ý", "þ", "ÿ",
    "U+0100", "U+0101", "U+0102", "U+0103", "U+0104", "U+0105", "U+0106",
    "U+0107", "U+0108", "U+0109", "U+010A", "U+010B", "U+010C", "U+010D",
    "U+010E", "U+010F", "U+0110", "U+0111", "U+0112", "U+0113", "U+0114",
    "U+0115", "U+0116", "U+0117", "U+0118", "U+0119", "U+011A", "U+011B",
    "U+011C", "U+011D", "U+011E", "U+011F", "U+0120", "U+0121", "U+0122",
    "U+0123", "U+0124", "U+0125", "U+0126", "U+0127", "U+0128", "U+0129",
    "U+012A", "U+012B", "U+012C", "U+012D", "U+012E", "U+012F", "U+0130",
    "U+0132", "U+0133", "U+0134", "U+0135", "U+0136", "U+0137", "U+0139",
    "U+013A", "U+013B", "U+013C", "U+013D", "U+013E", "U+013F", "U+0140",
    "U+0141", "U+0142", "U+0143", "U+0144", "U+0145", "U+0146", "U+0147",
    "U+0148", "U+014A", "U+014B", "U+014C", "U+014D", "U+014E", "U+014F",
    "U+0150", "U+0151", "U+0152", "U+0153", "U+0154", "U+0155", "U+0156",
    "U+0157", "U+0158", "U+0159", "U+015A", "U+015B", "U+015C", "U+015D",
    "U+015E", "U+015F", "U+0160", "U+0161", "U+0162", "U+0163", "U+0164",
    "U+0165", "U+0166", "U+0167", "U+0168", "U+0169", "U+016A", "U+016B",
    "U+016C", "U+016D", "U+016E", "U+016F", "U+0170", "U+0171", "U+0172",
    "U+0173", "U+0174", "U+0175", "U+0176", "U+0177", "U+0178", "U+0179",
    "U+017A", "U+017B", "U+017C", "U+017D", "U+017E", "U+0180", "U+0181",
    "U+0182", "U+0183", "U+0184", "U+0185", "U+0186", "U+0187", "U+0188",
    "U+0189", "U+018A", "U+018B", "U+018C", "U+018E", "U+018F", "U+0190",
    "U+0191", "U+0192", "U+0193", "U+0194", "U+0195", "U+0196", "U+0197",
    "U+0198", "U+0199", "U+019A", "U+019C", "U+019D", "U+019E", "U+019F",
    "U+01A0", "U+01A1", "U+01A2", "U+01A3", "U+01A4", "U+01A5", "U+01A6",
    "U+01A7", "U+01A8", "U+01A9", "U+01AC", "U+01AD", "U+01AE", "U+01AF",
    "U+01B0", "U+01B1", "U+01B2", "U+01B3", "U+01B4", "U+01B5", "U+01B6",
    "U+01B7", "U+01B8", "U+01B9", "U+01BC", "U+01BD", "U+01BF", "Ǆ", "ǅ",
    "ǆ", "Ǉ", "ǈ", "ǉ", "Ǌ", "ǋ", "ǌ", "U+01CD", "U+01CE", "U+01CF",
    "U+01D0", "U+01D1", "U+01D2", "U+01D3", "U+01D4", "U+01D5", "U+01D6",
    "U+01D7", "U+01D8", "U+01D9", "U+01DA", "U+01DB", "U+01DC", "U+01DD",
    "U+01DE", "U+01DF", "U+01E0", "U+01E1", "U+01E2", "U+01E3", "U+01E4",
    "U+01E5", "U+01E6", "U+01E7", "U+01E8", "U+01E9", "U+01EA", "U+01EB",
    "U+01EC", "U+01ED", "U+01EE", "U+01EF", "U+01F1", "U+01F2", "U+01F3",
    "U+01F4", "U+01F5", "U+01F6", "U+01F7", "U+01F8", "U+01F9", "U+01FA",
    "U+01FB", "U+01FC", "U+01FD", "U+01FE", "U+01FF", "U+0200", "U+0201",
    "U+0202", "U+0203", "U+0204", "U+0205", "U+0206", "U+0207", "U+0208",
    "U+0209", "U+020A", "U+020B", "U+020C", "U+020D", "U+020E", "U+020F",
    "U+0210", "U+0211", "U+0212", "U+0213", "U+0214", "U+0215", "U+0216",
    "U+0217", "U+0218", "U+0219", "U+021A", "U+021B", "U+021C", "U+021D",
    "U+021E", "U+021F", "U+0220", "U+0222", "U+0223", "U+0224", "U+0225",
    "U+0226", "U+0227", "U+0228", "U+0229", "U+022A", "U+022B", "U+022C",
    "U+022D", "U+022E", "U+022F", "U+0230", "U+0231", "U+0232", "U+0233",
    "U+023A", "U+023B", "U+023C", "U+023D", "U+023E", "U+023F", "U+0240",
    "U+0241", "U+0242", "U+0243", "U+0244", "U+0245", "U+0246", "U+0247",
    "U+0248", "U+0249", "U+024A", "U+024B", "U+024C", "U+024D", "U+024E",
    "U+024F", "U+0250", "U+0251", "U+0252", "U+0253", "U+0254", "U+0256",
    "U+0257", "U+0259", "U+025B", "U+025C", "U+0260", "U+0261", "U+0263",
    "U+0265", "U+0266", "U+0268", "U+0269", "U+026A", "U+026B", "U+026C",
    "U+026F", "U+0271", "U+0272", "U+0275", "U+027D", "U+0280", "U+0282",
    "U+0283", "U+0287", "U+0288", "U+0289", "U+028A", "U+028B", "U+028C",
    "U+0292", "U+029D", "U+029E", "U+0370", "U+0371", "U+0372", "U+0373",
    "U+0376", "U+0377", "U+037B", "U+037C", "U+037D", "U+037F", "Ά", "Έ",
    "Ή", "Ί", "Ό", "Ύ", "Ώ", "Α", "Β", "Γ", "Δ", "Ε", "Ζ", "Η", "Θ", "Ι",
    "Κ", "Λ", "Μ", "Ν", "Ξ", "Ο", "Π", "Ρ", "Σ", "Τ", "Υ", "Φ", "Χ", "Ψ",
    "Ω", "Ϊ", "Ϋ", "ά", "έ", "ή", "ί", "α", "β", "γ", "δ", "ε", "ζ", "η",
    "θ", "ι", "κ", "λ", "μ", "ν", "ξ", "ο", "π", "ρ", "σ", "τ", "υ", "φ",
    "χ", "ψ", "ω", "ϊ", "ϋ", "ό", "ύ", "ώ", "U+03CF", "U+03D2", "U+03D3",
    "U+03D4", "U+03D7", "U+03D8", "U+03D9", "U+03DA", "U+03DB", "U+03DC",
    "U+03DD", "U+03DE", "U+03DF", "U+03E0", "U+03E1", "U+03E2", "U+03E3",
    "U+03E4", "U+03E5", "U+03E6", "U+03E7", "U+03E8", "U+03E9", "U+03EA",
    "U+03EB", "U+03EC", "U+03ED", "U+03EE", "U+03EF", "U+03F2", "U+03F3",
    "U+03F4", "U+03F7", "U+03F8", "U+03F9", "U+03FA", "U+03FB", "U+03FD",
    "U+03FE", "U+03FF", "U+0400", "U+0401", "U+0402", "U+0403", "U+0404",
    "U+0405", "U+0406", "U+0407", "U+0408", "U+0409", "U+040A", "U+040B",
    "U+040C", "U+040D", "U+040E", "U+040F", "U+0410", "U+0411", "U+0412",
    "U+0413", "U+0414", "U+0415", "U+0416", "U+0417", "U+0418", "U+0419",
    "U+041A", "U+041B", "U+041C", "U+041D", "U+041E", "U+041F", "U+0420",
    "U+0421", "U+0422", "U+0423", "U+0424", "U+0425", "U+0426", "U+0427",
    "U+0428", "U+0429", "U+042A", "U+042B", "U+042C", "U+042D", "U+042E",
    "U+042F", "U+0430", "U+0431", "U+0432", "U+0433", "U+0434", "U+0435",
    "U+0436", "U+0437", "U+0438", "U+0439", "U+043A", "U+043B", "U+043C",
    "U+043D", "U+043E", "U+043F", "U+0440", "U+0441", "U+0442", "U+0443",
    "U+0444", "U+0445", "U+0446", "U+0447", "U+0448", "U+0449", "U+044A",
    "U+044B", "U+044C", "U+044D", "U+044E", "U+044F", "U+0450", "U+0451",
    "U+0452", "U+0453", "U+0454", "U+0455", "U+0456", "U+0457", "U+0458",
    "U+0459", "U+045A", "U+045B", "U+045C", "U+045D", "U+045E", "U+045F",
    "U+0460", "U+0461", "U+0462", "U+0463", "U+0464", "U+0465", "U+0466",
    "U+0467", "U+0468", "U+0469", "U+046A", "U+046B", "U+046C", "U+046D",
    "U+046E", "U+046F", "U+0470", "U+0471", "U+0472", "U+0473", "U+0474",
    "U+0475", "U+0476", "U+0477", "U+0478", "U+0479", "U+047A", "U+047B",
    "U+047C", "U+047D", "U+047E", "U+047F", "U+0480", "U+0481", "U+048A",
    "U+048B", "U+048C", "U+048D", "U+048E", "U+048F", "U+0490", "U+0491",
    "U+0492", "U+0493", "U+0494", "U+0495", "U+0496", "U+0497", "U+0498",
    "U+0499", "U+049A", "U+049B", "U+049C", "U+049D", "U+049E", "U+049F",
    "U+04A0", "U+04A1", "U+04A2", "U+04A3", "U+04A4", "U+04A5", "U+04A6",
    "U+04A7", "U+04A8", "U+04A9", "U+04AA", "U+04AB", "U+04AC", "U+04AD",
    "U+04AE", "U+04AF", "U+04B0", "U+04B1", "U+04B2", "U+04B3", "U+04B4",
    "U+04B5", "U+04B6", "U+04B7", "U+04B8", "U+04B9", "U+04BA", "U+04BB",
    "U+04BC", "U+04BD", "U+04BE", "U+04BF", "U+04C0", "U+04C1", "U+04C2",
    "U+04C3", "U+04C4", "U+04C5", "U+04C6", "U+04C7", "U+04C8", "U+04C9",
    "U+04CA", "U+04CB", "U+04CC", "U+04CD", "U+04CE", "U+04CF", "U+04D0",
    "U+04D1", "U+04D2", "U+04D3", "U+04D4", "U+04D5", "U+04D6", "U+04D7",
    "U+04D8", "U+04D9", "U+04DA", "U+04DB", "U+04DC", "U+04DD", "U+04DE",
    "U+04DF", "U+04E0", "U+04E1", "U+04E2", "U+04E3", "U+04E4", "U+04E5",
    "U+04E6", "U+04E7", "U+04E8", "U+04E9", "U+04EA", "U+04EB", "U+04EC",
    "U+04ED", "U+04EE", "U+04EF", "U+04F0", "U+04F1", "U+04F2", "U+04F3",
    "U+04F4", "U+04F5", "U+04F6", "U+04F7", "U+04F8", "U+04F9", "U+04FA",
    "U+04FB", "U+04FC", "U+04FD", "U+04FE", "U+04FF", "U+0500", "U+0501",
    "U+0502", "U+0503", "U+0504", "U+0505", "U+0506", "U+0507", "U+0508",
    "U+0509", "U+050A", "U+050B", "U+050C", "U+050D", "U+050E", "U+050F",
    "U+0510", "U+0511", "U+0512", "U+0513", "U+0514", "U+0515", "U+0516",
    "U+0517", "U+0518", "U+0519", "U+051A", "U+051B", "U+051C", "U+051D",
    "U+051E", "U+051F", "U+0520", "U+0521", "U+0522", "U+0523", "U+0524",
    "U+0525", "U+0526", "U+0527", "U+0528", "U+0529", "U+052A", "U+052B",
    "U+052C", "U+052D", "U+052E", "U+052F", "U+0531", "U+0532", "U+0533",
    "U+0534", "U+0535", "U+0536", "U+0537", "U+0538", "U+0539", "U+053A",
    "U+053B", "U+053C", "U+053D", "U+053E", "U+053F", "U+0540", "U+0541",
    "U+0542", "U+0543", "U+0544", "U+0545", "U+0546", "U+0547", "U+0548",
    "U+0549", "U+054A", "U+054B", "U+054C", "U+054D", "U+054E", "U+054F",
    "U+0550", "U+0551", "U+0552", "U+0553", "U+0554", "U+0555", "U+0556",
    "U+0561", "U+0562", "U+0563", "U+0564", "U+0565", "U+0566", "U+0567",
    "U+0568", "U+0569", "U+056A", "U+056B", "U+056C", "U+056D", "U+056E",
    "U+056F", "U+0570", "U+0571", "U+0572", "U+0573", "U+0574", "U+0575",
    "U+0576", "U+0577", "U+0578", "U+0579", "U+057A", "U+057B", "U+057C",
    "U+057D", "U+057E", "U+057F", "U+0580", "U+0581", "U+0582", "U+0583",
    "U+0584", "U+0585", "U+0586", "U+10A0", "U+10A1", "U+10A2", "U+10A3",
    "U+10A4", "U+10A5", "U+10A6", "U+10A7", "U+10A8", "U+10A9", "U+10AA",
    "U+10AB", "U+10AC", "U+10AD", "U+10AE", "U+10AF", "U+10B0", "U+10B1",
    "U+10B2", "U+10B3", "U+10B4", "U+10B5", "U+10B6", "U+10B7", "U+10B8",
    "U+10B9", "U+10BA", "U+10BB", "U+10BC", "U+10BD", "U+10BE", "U+10BF",
    "U+10C0", "U+10C1", "U+10C2", "U+10C3", "U+10C4", "U+10C5", "U+10C7",
    "U+10CD", "U+10D0", "U+10D1", "U+10D2", "U+10D3", "U+10D4", "U+10D5",
    "U+10D6", "U+10D7", "U+10D8", "U+10D9", "U+10DA", "U+10DB", "U+10DC",
    "U+10DD", "U+10DE", "U+10DF", "U+10E0", "U+10E1", "U+10E2", "U+10E3",
    "U+10E4", "U+10E5", "U+10E6", "U+10E7", "U+10E8", "U+10E9", "U+10EA",
    "U+10EB", "U+10EC", "U+10ED", "U+10EE", "U+10EF", "U+10F0", "U+10F1",
    "U+10F2", "U+10F3", "U+10F4", "U+10F5", "U+10F6", "U+10F7", "U+10F8",
    "U+10F9", "U+10FA", "U+10FD", "U+10FE", "U+10FF", "U+13A0", "U+13A1",
    "U+13A2", "U+13A3", "U+13A4", "U+13A5", "U+13A6", "U+13A7", "U+13A8",
    "U+13A9", "U+13AA", "U+13AB", "U+13AC", "U+13AD", "U+13AE", "U+13AF",
    "U+13B0", "U+13B1", "U+13B2", "U+13B3", "U+13B4", "U+13B5", "U+13B6",
    "U+13B7", "U+13B8", "U+13B9", "U+13BA", "U+13BB", "U+13BC", "U+13BD",
    "U+13BE", "U+13BF", "U+13C0", "U+13C1", "U+13C2", "U+13C3", "U+13C4",
    "U+13C5", "U+13C6", "U+13C7", "U+13C8", "U+13C9", "U+13CA", "U+13CB",
    "U+13CC", "U+13CD", "U+13CE", "U+13CF", "U+13D0", "U+13D1", "U+13D2",
    "U+13D3", "U+13D4", "U+13D5", "U+13D6", "U+13D7", "U+13D8", "U+13D9",
    "U+13DA", "U+13DB", "U+13DC", "U+13DD", "U+13DE", "U+13DF", "U+13E0",
    "U+13E1", "U+13E2", "U+13E3", "U+13E4", "U+13E5", "U+13E6", "U+13E7",
    "U+13E8", "U+13E9", "U+13EA", "U+13EB", "U+13EC", "U+13ED", "U+13EE",
    "U+13EF", "U+13F0", "U+13F1", "U+13F2", "U+13F3", "U+13F4", "U+13F5",
    "U+13F8", "U+13F9", "U+13FA", "U+13FB", "U+13FC", "U+13FD", "U+1C90",
    "U+1C91", "U+1C92", "U+1C93", "U+1C94", "U+1C95", "U+1C96", "U+1C97",
    "U+1C98", "U+1C99", "U+1C9A", "U+1C9B", "U+1C9C", "U+1C9D", "U+1C9E",
    "U+1C9F", "U+1CA0", "U+1CA1", "U+1CA2", "U+1CA3", "U+1CA4", "U+1CA5",
    "U+1CA6", "U+1CA7", "U+1CA8", "U+1CA9", "U+1CAA", "U+1CAB", "U+1CAC",
    "U+1CAD", "U+1CAE", "U+1CAF", "U+1CB0", "U+1CB1", "U+1CB2", "U+1CB3",
    "U+1CB4", "U+1CB5", "U+1CB6", "U+1CB7", "U+1CB8", "U+1CB9", "U+1CBA",
    "U+1CBD", "U+1CBE", "U+1CBF", "U+1D79", "U+1D7D", "U+1D8E", "U+1E00",
    "U+1E01", "U+1E02", "U+1E03", "U+1E04", "U+1E05", "U+1E06", "U+1E07",
    "U+1E08", "U+1E09", "U+1E0A", "U+1E0B", "U+1E0C", "U+1E0D", "U+1E0E",
    "U+1E0F", "U+1E10", "U+1E11", "U+1E12", "U+1E13", "U+1E14", "U+1E15",
    "U+1E16", "U+1E17", "U+1E18", "U+1E19", "U+1E1A", "U+1E1B", "U+1E1C",
    "U+1E1D", "U+1E1E", "U+1E1F", "U+1E20", "U+1E21", "U+1E22", "U+1E23",
    "U+1E24", "U+1E25", "U+1E26", "U+1E27", "U+1E28", "U+1E29", "U+1E2A",
    "U+1E2B", "U+1E2C", "U+1E2D", "U+1E2E", "U+1E2F", "U+1E30", "U+1E31",
    "U+1E32", "U+1E33", "U+1E34", "U+1E35", "U+1E36", "U+1E37", "U+1E38",
    "U+1E39", "U+1E3A", "U+1E3B", "U+1E3C", "U+1E3D", "U+1E3E", "U+1E3F",
    "U+1E40", "U+1E41", "U+1E42", "U+1E43", "U+1E44", "U+1E45", "U+1E46",
    "U+1E47", "U+1E48", "U+1E49", "U+1E4A", "U+1E4B", "U+1E4C", "U+1E4D",
    "U+1E4E", "U+1E4F", "U+1E50", "U+1E51", "U+1E52", "U+1E53", "U+1E54",
    "U+1E55", "U+1E56", "U+1E57", "U+1E58", "U+1E59", "U+1E5A", "U+1E5B",
    "U+1E5C", "U+1E5D", "U+1E5E", "U+1E5F", "U+1E60", "U+1E61", "U+1E62",
    "U+1E63", "U+1E64", "U+1E65", "U+1E66", "U+1E67", "U+1E68", "U+1E69",
    "U+1E6A", "U+1E6B", "U+1E6C", "U+1E6D", "U+1E6E", "U+1E6F", "U+1E70",
    "U+1E71", "U+1E72", "U+1E73", "U+1E74", "U+1E75", "U+1E76", "U+1E77",
    "U+1E78", "U+1E79", "U+1E7A", "U+1E7B", "U+1E7C", "U+1E7D", "U+1E7E",
    "U+1E7F", "U+1E80", "U+1E81", "U+1E82", "U+1E83", "U+1E84", "U+1E85",
    "U+1E86", "U+1E87", "U+1E88", "U+1E89", "U+1E8A", "U+1E8B", "U+1E8C",
    "U+1E8D", "U+1E8E", "U+1E8F", "U+1E90", "U+1E91", "U+1E92", "U+1E93",
    "U+1E94", "U+1E95", "U+1E9E", "U+1EA0", "U+1EA1", "U+1EA2", "U+1EA3",
    "U+1EA4", "U+1EA5", "U+1EA6", "U+1EA7", "U+1EA8", "U+1EA9", "U+1EAA",
    "U+1EAB", "U+1EAC", "U+1EAD", "U+1EAE", "U+1EAF", "U+1EB0", "U+1EB1",
    "U+1EB2", "U+1EB3", "U+1EB4", "U+1EB5", "U+1EB6", "U+1EB7", "U+1EB8",
    "U+1EB9", "U+1EBA", "U+1EBB", "U+1EBC", "U+1EBD", "U+1EBE", "U+1EBF",
    "U+1EC0", "U+1EC1", "U+1EC2", "U+1EC3", "U+1EC4", "U+1EC5", "U+1EC6",
    "U+1EC7", "U+1EC8", "U+1EC9", "U+1ECA", "U+1ECB", "U+1ECC", "U+1ECD",
    "U+1ECE", "U+1ECF", "U+1ED0", "U+1ED1", "U+1ED2", "U+1ED3", "U+1ED4",
    "U+1ED5", "U+1ED6", "U+1ED7", "U+1ED8", "U+1ED9", "U+1EDA", "U+1EDB",
    "U+1EDC", "U+1EDD", "U+1EDE", "U+1EDF", "U+1EE0", "U+1EE1", "U+1EE2",
    "U+1EE3", "U+1EE4", "U+1EE5", "U+1EE6", "U+1EE7", "U+1EE8", "U+1EE9",
    "U+1EEA", "U+1EEB", "U+1EEC", "U+1EED", "U+1EEE", "U+1EEF", "U+1EF0",
    "U+1EF1", "U+1EF2", "U+1EF3", "U+1EF4", "U+1EF5", "U+1EF6", "U+1EF7",
    "U+1EF8", "U+1EF9", "U+1EFA", "U+1EFB", "U+1EFC", "U+1EFD", "U+1EFE",
    "U+1EFF", "U+1F00", "U+1F01", "U+1F02", "U+1F03", "U+1F04", "U+1F05",
    "U+1F06", "U+1F07", "U+1F08", "U+1F09", "U+1F0A", "U+1F0B", "U+1F0C",
    "U+1F0D", "U+1F0E", "U+1F0F", "U+1F10", "U+1F11", "U+1F12", "U+1F13",
    "U+1F14", "U+1F15", "U+1F18", "U+1F19", "U+1F1A", "U+1F1B", "U+1F1C",
    "U+1F1D", "U+1F20", "U+1F21", "U+1F22", "U+1F23", "U+1F24", "U+1F25",
    "U+1F26", "U+1F27", "U+1F28", "U+1F29", "U+1F2A", "U+1F2B", "U+1F2C",
    "U+1F2D", "U+1F2E", "U+1F2F", "U+1F30", "U+1F31", "U+1F32", "U+1F33",
    "U+1F34", "U+1F35", "U+1F36", "U+1F37", "U+1F38", "U+1F39", "U+1F3A",
    "U+1F3B", "U+1F3C", "U+1F3D", "U+1F3E", "U+1F3F", "U+1F40", "U+1F41",
    "U+1F42", "U+1F43", "U+1F44", "U+1F45", "U+1F48", "U+1F49", "U+1F4A",
    "U+1F4B", "U+1F4C", "U+1F4D", "U+1F51", "U+1F53", "U+1F55", "U+1F57",
    "U+1F59", "U+1F5B", "U+1F5D", "U+1F5F", "U+1F60", "U+1F61", "U+1F62",
    "U+1F63", "U+1F64", "U+1F65", "U+1F66", "U+1F67", "U+1F68", "U+1F69",
    "U+1F6A", "U+1F6B", "U+1F6C", "U+1F6D", "U+1F6E", "U+1F6F", "U+1F70",
    "U+1F71", "U+1F72", "U+1F73", "U+1F74", "U+1F75", "U+1F76", "U+1F77",
    "U+1F78", "U+1F79", "U+1F7A", "U+1F7B", "U+1F7C", "U+1F7D", "U+1F80",
    "U+1F81", "U+1F82", "U+1F83", "U+1F84", "U+1F85", "U+1F86", "U+1F87",
    "U+1F88", "U+1F89", "U+1F8A", "U+1F8B", "U+1F8C", "U+1F8D", "U+1F8E",
    "U+1F8F", "U+1F90", "U+1F91", "U+1F92", "U+1F93", "U+1F94", "U+1F95",
    "U+1F96", "U+1F97", "U+1F98", "U+1F99", "U+1F9A", "U+1F9B", "U+1F9C",
    "U+1F9D", "U+1F9E", "U+1F9F", "U+1FA0", "U+1FA1", "U+1FA2", "U+1FA3",
    "U+1FA4", "U+1FA5", "U+1FA6", "U+1FA7", "U+1FA8", "U+1FA9", "U+1FAA",
    "U+1FAB", "U+1FAC", "U+1FAD", "U+1FAE", "U+1FAF", "U+1FB0", "U+1FB1",
    "U+1FB3", "U+1FB8", "U+1FB9", "U+1FBA", "U+1FBB", "U+1FBC", "U+1FC3",
    "U+1FC8", "U+1FC9", "U+1FCA", "U+1FCB", "U+1FCC", "U+1FD0", "U+1FD1",
    "U+1FD8", "U+1FD9", "U+1FDA", "U+1FDB", "U+1FE0", "U+1FE1", "U+1FE5",
    "U+1FE8", "U+1FE9", "U+1FEA", "U+1FEB", "U+1FEC", "U+1FF3", "U+1FF8",
    "U+1FF9", "U+1FFA", "U+1FFB", "U+1FFC", "U+2028", "U+2029", "U+2102",
    "U+2107", "U+210B", "U+210C", "U+210D", "U+2110", "U+2111", "U+2112",
    "U+2115", "U+2119", "U+211A", "U+211B", "U+211C", "U+211D", "U+2124",
    "U+2126", "U+2128", "U+212A", "U+212B", "U+212C", "U+212D", "U+2130",
    "U+2131", "U+2132", "U+2133", "U+213E", "U+213F", "U+2145", "U+214E",
    "U+2160", "U+2161", "U+2162", "U+2163", "U+2164", "U+2165", "U+2166",
    "U+2167", "U+2168", "U+2169", "U+216A", "U+216B", "U+216C", "U+216D",
    "U+216E", "U+216F", "U+2170", "U+2171", "U+2172", "U+2173", "U+2174",
    "U+2175", "U+2176", "U+2177", "U+2178", "U+2179", "U+217A", "U+217B",
    "U+217C", "U+217D", "U+217E", "U+217F", "U+2183", "U+2184", "U+24B6",
    "U+24B7", "U+24B8", "U+24B9", "U+24BA", "U+24BB", "U+24BC", "U+24BD",
    "U+24BE", "U+24BF", "U+24C0", "U+24C1", "U+24C2", "U+24C3", "U+24C4",
    "U+24C5", "U+24C6", "U+24C7", "U+24C8", "U+24C9", "U+24CA", "U+24CB",
    "U+24CC", "U+24CD", "U+24CE", "U+24CF", "U+24D0", "U+24D1", "U+24D2",
    "U+24D3", "U+24D4", "U+24D5", "U+24D6", "U+24D7", "U+24D8", "U+24D9",
    "U+24DA", "U+24DB", "U+24DC", "U+24DD", "U+24DE", "U+24DF", "U+24E0",
    "U+24E1", "U+24E2", "U+24E3", "U+24E4", "U+24E5", "U+24E6", "U+24E7",
    "U+24E8", "U+24E9", "U+2C00", "U+2C01", "U+2C02", "U+2C03", "U+2C04",
    "U+2C05", "U+2C06", "U+2C07", "U+2C08", "U+2C09", "U+2C0A", "U+2C0B",
    "U+2C0C", "U+2C0D", "U+2C0E", "U+2C0F", "U+2C10", "U+2C11", "U+2C12",
    "U+2C13", "U+2C14", "U+2C15", "U+2C16", "U+2C17", "U+2C18", "U+2C19",
    "U+2C1A", "U+2C1B", "U+2C1C", "U+2C1D", "U+2C1E", "U+2C1F", "U+2C20",
    "U+2C21", "U+2C22", "U+2C23", "U+2C24", "U+2C25", "U+2C26", "U+2C27",
    "U+2C28", "U+2C29", "U+2C2A", "U+2C2B", "U+2C2C", "U+2C2D", "U+2C2E",
    "U+2C2F", "U+2C30", "U+2C31", "U+2C32", "U+2C33", "U+2C34", "U+2C35",
    "U+2C36", "U+2C37", "U+2C38", "U+2C39", "U+2C3A", "U+2C3B", "U+2C3C",
    "U+2C3D", "U+2C3E", "U+2C3F", "U+2C40", "U+2C41", "U+2C42", "U+2C43",
    "U+2C44", "U+2C45", "U+2C46", "U+2C47", "U+2C48", "U+2C49", "U+2C4A",
    "U+2C4B", "U+2C4C", "U+2C4D", "U+2C4E", "U+2C4F", "U+2C50", "U+2C51",
    "U+2C52", "U+2C53", "U+2C54", "U+2C55", "U+2C56", "U+2C57", "U+2C58",
    "U+2C59", "U+2C5A", "U+2C5B", "U+2C5C", "U+2C5D", "U+2C5E", "U+2C5F",
    "U+2C60", "U+2C61", "U+2C62", "U+2C63", "U+2C64", "U+2C65", "U+2C66",
    "U+2C67", "U+2C68", "U+2C69", "U+2C6A", "U+2C6B", "U+2C6C", "U+2C6D",
    "U+2C6E", "U+2C6F", "U+2C70", "U+2C72", "U+2C73", "U+2C75", "U+2C76",
    "U+2C7E", "U+2C7F", "U+2C80", "U+2C81", "U+2C82", "U+2C83", "U+2C84",
    "U+2C85", "U+2C86", "U+2C87", "U+2C88", "U+2C89", "U+2C8A", "U+2C8B",
    "U+2C8C", "U+2C8D", "U+2C8E", "U+2C8F", "U+2C90", "U+2C91", "U+2C92",
    "U+2C93", "U+2C94", "U+2C95", "U+2C96", "U+2C97", "U+2C98", "U+2C99",
    "U+2C9A", "U+2C9B", "U+2C9C", "U+2C9D", "U+2C9E", "U+2C9F", "U+2CA0",
    "U+2CA1", "U+2CA2", "U+2CA3", "U+2CA4", "U+2CA5", "U+2CA6", "U+2CA7",
    "U+2CA8", "U+2CA9", "U+2CAA", "U+2CAB", "U+2CAC", "U+2CAD", "U+2CAE",
    "U+2CAF", "U+2CB0", "U+2CB1", "U+2CB2", "U+2CB3", "U+2CB4", "U+2CB5",
    "U+2CB6", "U+2CB7", "U+2CB8", "U+2CB9", "U+2CBA", "U+2CBB", "U+2CBC",
    "U+2CBD", "U+2CBE", "U+2CBF", "U+2CC0", "U+2CC1", "U+2CC2", "U+2CC3",
    "U+2CC4", "U+2CC5", "U+2CC6", "U+2CC7", "U+2CC8", "U+2CC9", "U+2CCA",
    "U+2CCB", "U+2CCC", "U+2CCD", "U+2CCE", "U+2CCF", "U+2CD0", "U+2CD1",
    "U+2CD2", "U+2CD3", "U+2CD4", "U+2CD5", "U+2CD6", "U+2CD7", "U+2CD8",
    "U+2CD9", "U+2CDA", "U+2CDB", "U+2CDC", "U+2CDD", "U+2CDE", "U+2CDF",
    "U+2CE0", "U+2CE1", "U+2CE2", "U+2CE3", "U+2CEB", "U+2CEC", "U+2CED",
    "U+2CEE", "U+2CF2", "U+2CF3", "U+2D00", "U+2D01", "U+2D02", "U+2D03",
    "U+2D04", "U+2D05", "U+2D06", "U+2D07", "U+2D08", "U+2D09", "U+2D0A",
    "U+2D0B", "U+2D0C", "U+2D0D", "U+2D0E", "U+2D0F", "U+2D10", "U+2D11",
    "U+2D12", "U+2D13", "U+2D14", "U+2D15", "U+2D16", "U+2D17", "U+2D18",
    "U+2D19", "U+2D1A", "U+2D1B", "U+2D1C", "U+2D1D", "U+2D1E", "U+2D1F",
    "U+2D20", "U+2D21", "U+2D22", "U+2D23", "U+2D24", "U+2D25", "U+2D27",
    "U+2D2D", "U+A640", "U+A641", "U+A642", "U+A643", "U+A644", "U+A645",
    "U+A646", "U+A647", "U+A648", "U+A649", "U+A64A", "U+A64B", "U+A64C",
    "U+A64D", "U+A64E", "U+A64F", "U+A650", "U+A651", "U+A652", "U+A653",
    "U+A654", "U+A655", "U+A656", "U+A657", "U+A658", "U+A659", "U+A65A",
    "U+A65B", "U+A65C", "U+A65D", "U+A65E", "U+A65F", "U+A660", "U+A661",
    "U+A662", "U+A663", "U+A664", "U+A665", "U+A666", "U+A667", "U+A668",
    "U+A669", "U+A66A", "U+A66B", "U+A66C", "U+A66D", "U+A680", "U+A681",
    "U+A682", "U+A683", "U+A684", "U+A685", "U+A686", "U+A687", "U+A688",
    "U+A689", "U+A68A", "U+A68B", "U+A68C", "U+A68D", "U+A68E", "U+A68F",
    "U+A690", "U+A691", "U+A692", "U+A693", "U+A694", "U+A695", "U+A696",
    "U+A697", "U+A698", "U+A699", "U+A69A", "U+A69B", "U+A722", "U+A723",
    "U+A724", "U+A725", "U+A726", "U+A727", "U+A728", "U+A729", "U+A72A",
    "U+A72B", "U+A72C", "U+A72D", "U+A72E", "U+A72F", "U+A732", "U+A733",
    "U+A734", "U+A735", "U+A736", "U+A737", "U+A738", "U+A739", "U+A73A",
    "U+A73B", "U+A73C", "U+A73D", "U+A73E", "U+A73F", "U+A740", "U+A741",
    "U+A742", "U+A743", "U+A744", "U+A745", "U+A746", "U+A747", "U+A748",
    "U+A749", "U+A74A", "U+A74B", "U+A74C", "U+A74D", "U+A74E", "U+A74F",
    "U+A750", "U+A751", "U+A752", "U+A753", "U+A754", "U+A755", "U+A756",
    "U+A757", "U+A758", "U+A759", "U+A75A", "U+A75B", "U+A75C", "U+A75D",
    "U+A75E", "U+A75F", "U+A760", "U+A761", "U+A762", "U+A763", "U+A764",
    "U+A765", "U+A766", "U+A767", "U+A768", "U+A769", "U+A76A", "U+A76B",
    "U+A76C", "U+A76D", "U+A76E", "U+A76F", "U+A779", "U+A77A", "U+A77B",
    "U+A77C", "U+A77D", "U+A77E", "U+A77F", "U+A780", "U+A781", "U+A782",
    "U+A783", "U+A784", "U+A785", "U+A786", "U+A787", "U+A78B", "U+A78C",
    "U+A78D", "U+A790", "U+A791", "U+A792", "U+A793", "U+A794", "U+A796",
    "U+A797", "U+A798", "U+A799", "U+A79A", "U+A79B", "U+A79C", "U+A79D",
    "U+A79E", "U+A79F", "U+A7A0", "U+A7A1", "U+A7A2", "U+A7A3", "U+A7A4",
    "U+A7A5", "U+A7A6", "U+A7A7", "U+A7A8", "U+A7A9", "U+A7AA", "U+A7AB",
    "U+A7AC", "U+A7AD", "U+A7AE", "U+A7B0", "U+A7B1", "U+A7B2", "U+A7B3",
    "U+A7B4", "U+A7B5", "U+A7B6", "U+A7B7", "U+A7B8", "U+A7B9", "U+A7BA",
    "U+A7BB", "U+A7BC", "U+A7BD", "U+A7BE", "U+A7BF", "U+A7C0", "U+A7C1",
    "U+A7C2", "U+A7C3", "U+A7C4", "U+A7C5", "U+A7C6", "U+A7C7", "U+A7C8",
    "U+A7C9", "U+A7CA", "U+A7D0", "U+A7D1", "U+A7D6", "U+A7D7", "U+A7D8",
    "U+A7D9", "U+A7F5", "U+A7F6", "U+AB53", "U+AB70", "U+AB71", "U+AB72",
    "U+AB73", "U+AB74", "U+AB75", "U+AB76", "U+AB77", "U+AB78", "U+AB79",
    "U+AB7A", "U+AB7B", "U+AB7C", "U+AB7D", "U+AB7E", "U+AB7F", "U+AB80",
    "U+AB81", "U+AB82", "U+AB83", "U+AB84", "U+AB85", "U+AB86", "U+AB87",
    "U+AB88", "U+AB89", "U+AB8A", "U+AB8B", "U+AB8C", "U+AB8D", "U+AB8E",
    "U+AB8F", "U+AB90", "U+AB91", "U+AB92", "U+AB93", "U+AB94", "U+AB95",
    "U+AB96", "U+AB97", "U+AB98", "U+AB99", "U+AB9A", "U+AB9B", "U+AB9C",
    "U+AB9D", "U+AB9E", "U+AB9F", "U+ABA0", "U+ABA1", "U+ABA2", "U+ABA3",
    "U+ABA4", "U+ABA5", "U+ABA6", "U+ABA7", "U+ABA8", "U+ABA9", "U+ABAA",
    "U+ABAB", "U+ABAC", "U+ABAD", "U+ABAE", "U+ABAF", "U+ABB0", "U+ABB1",
    "U+ABB2", "U+ABB3", "U+ABB4", "U+ABB5", "U+ABB6", "U+ABB7", "U+ABB8",
    "U+ABB9", "U+ABBA", "U+ABBB", "U+ABBC", "U+ABBD", "U+ABBE", "U+ABBF",
    "U+FF21", "U+FF22", "U+FF23", "U+FF24", "U+FF25", "U+FF26", "U+FF27",
    "U+FF28", "U+FF29", "U+FF2A", "U+FF2B", "U+FF2C", "U+FF2D", "U+FF2E",
    "U+FF2F", "U+FF30", "U+FF31", "U+FF32", "U+FF33", "U+FF34", "U+FF35",
    "U+FF36", "U+FF37", "U+FF38", "U+FF39", "U+FF3A", "U+FF41", "U+FF42",
    "U+FF43", "U+FF44", "U+FF45", "U+FF46", "U+FF47", "U+FF48", "U+FF49",
    "U+FF4A", "U+FF4B", "U+FF4C", "U+FF4D", "U+FF4E", "U+FF4F", "U+FF50",
    "U+FF51", "U+FF52", "U+FF53", "U+FF54", "U+FF55", "U+FF56", "U+FF57",
    "U+FF58", "U+FF59", "U+FF5A", "U+FFFD", "U+10400", "U+10401", "U+10402",
    "U+10403", "U+10404", "U+10405", "U+10406", "U+10407", "U+10408",
    "U+10409", "U+1040A", "U+1040B", "U+1040C", "U+1040D", "U+1040E",
    "U+1040F", "U+10410", "U+10411", "U+10412", "U+10413", "U+10414",
    "U+10415", "U+10416", "U+10417", "U+10418", "U+10419", "U+1041A",
    "U+1041B", "U+1041C", "U+1041D", "U+1041E", "U+1041F", "U+10420",
    "U+10421", "U+10422", "U+10423", "U+10424", "U+10425", "U+10426",
    "U+10427", "U+10428", "U+10429", "U+1042A", "U+1042B", "U+1042C",
    "U+1042D", "U+1042E", "U+1042F", "U+10430", "U+10431", "U+10432",
    "U+10433", "U+10434", "U+10435", "U+10436", "U+10437", "U+10438",
    "U+10439", "U+1043A", "U+1043B", "U+1043C", "U+1043D", "U+1043E",
    "U+1043F", "U+10440", "U+10441", "U+10442", "U+10443", "U+10444",
    "U+10445", "U+10446", "U+10447", "U+10448", "U+10449", "U+1044A",
    "U+1044B", "U+1044C", "U+1044D", "U+1044E", "U+1044F", "U+104B0",
    "U+104B1", "U+104B2", "U+104B3", "U+104B4", "U+104B5", "U+104B6",
    "U+104B7", "U+104B8", "U+104B9", "U+104BA", "U+104BB", "U+104BC",
    "U+104BD", "U+104BE", "U+104BF", "U+104C0", "U+104C1", "U+104C2",
    "U+104C3", "U+104C4", "U+104C5", "U+104C6", "U+104C7", "U+104C8",
    "U+104C9", "U+104CA", "U+104CB", "U+104CC", "U+104CD", "U+104CE",
    "U+104CF", "U+104D0", "U+104D1", "U+104D2", "U+104D3", "U+104D8",
    "U+104D9", "U+104DA", "U+104DB", "U+104DC", "U+104DD", "U+104DE",
    "U+104DF", "U+104E0", "U+104E1", "U+104E2", "U+104E3", "U+104E4",
    "U+104E5", "U+104E6", "U+104E7", "U+104E8", "U+104E9", "U+104EA",
    "U+104EB", "U+104EC", "U+104ED", "U+104EE", "U+104EF", "U+104F0",
    "U+104F1", "U+104F2", "U+104F3", "U+104F4", "U+104F5", "U+104F6",
    "U+104F7", "U+104F8", "U+104F9", "U+104FA", "U+104FB", "U+10570",
    "U+10571", "U+10572", "U+10573", "U+10574", "U+10575", "U+10576",
    "U+10577", "U+10578", "U+10579", "U+1057A", "U+1057C", "U+1057D",
    "U+1057E", "U+1057F", "U+10580", "U+10581", "U+10582", "U+10583",
    "U+10584", "U+10585", "U+10586", "U+10587", "U+10588", "U+10589",
    "U+1058A", "U+1058C", "U+1058D", "U+1058E", "U+1058F", "U+10590",
    "U+10591", "U+10592", "U+10594", "U+10595", "U+10597", "U+10598",
    "U+10599", "U+1059A", "U+1059B", "U+1059C", "U+1059D", "U+1059E",
    "U+1059F", "U+105A0", "U+105A1", "U+105A3", "U+105A4", "U+105A5",
    "U+105A6", "U+105A7", "U+105A8", "U+105A9", "U+105AA", "U+105AB",
    "U+105AC", "U+105AD", "U+105AE", "U+105AF", "U+105B0", "U+105B1",
    "U+105B3", "U+105B4", "U+105B5", "U+105B6", "U+105B7", "U+105B8",
    "U+105B9", "U+105BB", "U+105BC", "U+10C80", "U+10C81", "U+10C82",
    "U+10C83", "U+10C84", "U+10C85", "U+10C86", "U+10C87", "U+10C88",
    "U+10C89", "U+10C8A", "U+10C8B", "U+10C8C", "U+10C8D", "U+10C8E",
    "U+10C8F", "U+10C90", "U+10C91", "U+10C92", "U+10C93", "U+10C94",
    "U+10C95", "U+10C96", "U+10C97", "U+10C98", "U+10C99", "U+10C9A",
    "U+10C9B", "U+10C9C", "U+10C9D", "U+10C9E", "U+10C9F", "U+10CA0",
    "U+10CA1", "U+10CA2", "U+10CA3", "U+10CA4", "U+10CA5", "U+10CA6",
    "U+10CA7", "U+10CA8", "U+10CA9", "U+10CAA", "U+10CAB", "U+10CAC",
    "U+10CAD", "U+10CAE", "U+10CAF", "U+10CB0", "U+10CB1", "U+10CB2",
    "U+10CC0", "U+10CC1", "U+10CC2", "U+10CC3", "U+10CC4", "U+10CC5",
    "U+10CC6", "U+10CC7", "U+10CC8", "U+10CC9", "U+10CCA", "U+10CCB",
    "U+10CCC", "U+10CCD", "U+10CCE", "U+10CCF", "U+10CD0", "U+10CD1",
    "U+10CD2", "U+10CD3", "U+10CD4", "U+10CD5", "U+10CD6", "U+10CD7",
    "U+10CD8", "U+10CD9", "U+10CDA", "U+10CDB", "U+10CDC", "U+10CDD",
    "U+10CDE", "U+10CDF", "U+10CE0", "U+10CE1", "U+10CE2", "U+10CE3",
    "U+10CE4", "U+10CE5", "U+10CE6", "U+10CE7", "U+10CE8", "U+10CE9",
    "U+10CEA", "U+10CEB", "U+10CEC", "U+10CED", "U+10CEE", "U+10CEF",
    "U+10CF0", "U+10CF1", "U+10CF2", "U+118A0", "U+118A1", "U+118A2",
    "U+118A3", "U+118A4", "U+118A5", "U+118A6", "U+118A7", "U+118A8",
    "U+118A9", "U+118AA", "U+118AB", "U+118AC", "U+118AD", "U+118AE",
    "U+118AF", "U+118B0", "U+118B1", "U+118B2", "U+118B3", "U+118B4",
    "U+118B5", "U+118B6", "U+118B7", "U+118B8", "U+118B9", "U+118BA",
    "U+118BB", "U+118BC", "U+118BD", "U+118BE", "U+118BF", "U+118C0",
    "U+118C1", "U+118C2", "U+118C3", "U+118C4", "U+118C5", "U+118C6",
    "U+118C7", "U+118C8", "U+118C9", "U+118CA", "U+118CB", "U+118CC",
    "U+118CD", "U+118CE", "U+118CF", "U+118D0", "U+118D1", "U+118D2",
    "U+118D3", "U+118D4", "U+118D5", "U+118D6", "U+118D7", "U+118D8",
    "U+118D9", "U+118DA", "U+118DB", "U+118DC", "U+118DD", "U+118DE",
    "U+118DF", "U+16E40", "U+16E41", "U+16E42", "U+16E43", "U+16E44",
    "U+16E45", "U+16E46", "U+16E47", "U+16E48", "U+16E49", "U+16E4A",
    "U+16E4B", "U+16E4C", "U+16E4D", "U+16E4E", "U+16E4F", "U+16E50",
    "U+16E51", "U+16E52", "U+16E53", "U+16E54", "U+16E55", "U+16E56",
    "U+16E57", "U+16E58", "U+16E59", "U+16E5A", "U+16E5B", "U+16E5C",
    "U+16E5D", "U+16E5E", "U+16E5F", "U+16E60", "U+16E61", "U+16E62",
    "U+16E63", "U+16E64", "U+16E65", "U+16E66", "U+16E67", "U+16E68",
    "U+16E69", "U+16E6A", "U+16E6B", "U+16E6C", "U+16E6D", "U+16E6E",
    "U+16E6F", "U+16E70", "U+16E71", "U+16E72", "U+16E73", "U+16E74",
    "U+16E75", "U+16E76", "U+16E77", "U+16E78", "U+16E79", "U+16E7A",
    "U+16E7B", "U+16E7C", "U+16E7D", "U+16E7E", "U+16E7F", "U+1D400",
    "U+1D401", "U+1D402", "U+1D403", "U+1D404", "U+1D405", "U+1D406",
    "U+1D407", "U+1D408", "U+1D409", "U+1D40A", "U+1D40B", "U+1D40C",
    "U+1D40D", "U+1D40E", "U+1D40F", "U+1D410", "U+1D411", "U+1D412",
    "U+1D413", "U+1D414", "U+1D415", "U+1D416", "U+1D417", "U+1D418",
    "U+1D419", "U+1D434", "U+1D435", "U+1D436", "U+1D437", "U+1D438",
    "U+1D439", "U+1D43A", "U+1D43B", "U+1D43C", "U+1D43D", "U+1D43E",
    "U+1D43F", "U+1D440", "U+1D441", "U+1D442", "U+1D443", "U+1D444",
    "U+1D445", "U+1D446", "U+1D447", "U+1D448", "U+1D449", "U+1D44A",
    "U+1D44B", "U+1D44C", "U+1D44D", "U+1D468", "U+1D469", "U+1D46A",
    "U+1D46B", "U+1D46C", "U+1D46D", "U+1D46E", "U+1D46F", "U+1D470",
    "U+1D471", "U+1D472", "U+1D473", "U+1D474", "U+1D475", "U+1D476",
    "U+1D477", "U+1D478", "U+1D479", "U+1D47A", "U+1D47B", "U+1D47C",
    "U+1D47D", "U+1D47E", "U+1D47F", "U+1D480", "U+1D481", "U+1D49C",
    "U+1D49E", "U+1D49F", "U+1D4A2", "U+1D4A5", "U+1D4A6", "U+1D4A9",
    "U+1D4AA", "U+1D4AB", "U+1D4AC", "U+1D4AE", "U+1D4AF", "U+1D4B0",
    "U+1D4B1", "U+1D4B2", "U+1D4B3", "U+1D4B4", "U+1D4B5", "U+1D4D0",
    "U+1D4D1", "U+1D4D2", "U+1D4D3", "U+1D4D4", "U+1D4D5", "U+1D4D6",
    "U+1D4D7", "U+1D4D8", "U+1D4D9", "U+1D4DA", "U+1D4DB", "U+1D4DC",
    "U+1D4DD", "U+1D4DE", "U+1D4DF", "U+1D4E0", "U+1D4E1", "U+1D4E2",
    "U+1D4E3", "U+1D4E4", "U+1D4E5", "U+1D4E6", "U+1D4E7", "U+1D4E8",
    "U+1D4E9", "U+1D504", "U+1D505", "U+1D507", "U+1D508", "U+1D509",
    "U+1D50A", "U+1D50D", "U+1D50E", "U+1D50F", "U+1D510", "U+1D511",
    "U+1D512", "U+1D513", "U+1D514", "U+1D516", "U+1D517", "U+1D518",
    "U+1D519", "U+1D51A", "U+1D51B", "U+1D51C", "U+1D538", "U+1D539",
    "U+1D53B", "U+1D53C", "U+1D53D", "U+1D53E", "U+1D540", "U+1D541",
    "U+1D542", "U+1D543", "U+1D544", "U+1D546", "U+1D54A", "U+1D54B",
    "U+1D54C", "U+1D54D", "U+1D54E", "U+1D54F", "U+1D550", "U+1D56C",
    "U+1D56D", "U+1D56E", "U+1D56F", "U+1D570", "U+1D571", "U+1D572",
    "U+1D573", "U+1D574", "U+1D575", "U+1D576", "U+1D577", "U+1D578",
    "U+1D579", "U+1D57A", "U+1D57B", "U+1D57C", "U+1D57D", "U+1D57E",
    "U+1D57F", "U+1D580", "U+1D581", "U+1D582", "U+1D583", "U+1D584",
    "U+1D585", "U+1D5A0", "U+1D5A1", "U+1D5A2", "U+1D5A3", "U+1D5A4",
    "U+1D5A5", "U+1D5A6", "U+1D5A7", "U+1D5A8", "U+1D5A9", "U+1D5AA",
    "U+1D5AB", "U+1D5AC", "U+1D5AD", "U+1D5AE", "U+1D5AF", "U+1D5B0",
    "U+1D5B1", "U+1D5B2", "U+1D5B3", "U+1D5B4", "U+1D5B5", "U+1D5B6",
    "U+1D5B7", "U+1D5B8", "U+1D5B9", "U+1D5D4", "U+1D5D5", "U+1D5D6",
    "U+1D5D7", "U+1D5D8", "U+1D5D9", "U+1D5DA", "U+1D5DB", "U+1D5DC",
    "U+1D5DD", "U+1D5DE", "U+1D5DF", "U+1D5E0", "U+1D5E1", "U+1D5E2",
    "U+1D5E3", "U+1D5E4", "U+1D5E5", "U+1D5E6", "U+1D5E7", "U+1D5E8",
    "U+1D5E9", "U+1D5EA", "U+1D5EB", "U+1D5EC", "U+1D5ED", "U+1D608",
    "U+1D609", "U+1D60A", "U+1D60B", "U+1D60C", "U+1D60D", "U+1D60E",
    "U+1D60F", "U+1D610", "U+1D611", "U+1D612", "U+1D613", "U+1D614",
    "U+1D615", "U+1D616", "U+1D617", "U+1D618", "U+1D619", "U+1D61A",
    "U+1D61B", "U+1D61C", "U+1D61D", "U+1D61E", "U+1D61F", "U+1D620",
    "U+1D621", "U+1D63C", "U+1D63D", "U+1D63E", "U+1D63F", "U+1D640",
    "U+1D641", "U+1D642", "U+1D643", "U+1D644", "U+1D645", "U+1D646",
    "U+1D647", "U+1D648", "U+1D649", "U+1D64A", "U+1D64B", "U+1D64C",
    "U+1D64D", "U+1D64E", "U+1D64F", "U+1D650", "U+1D651", "U+1D652",
    "U+1D653", "U+1D654", "U+1D655", "U+1D670", "U+1D671", "U+1D672",
    "U+1D673", "U+1D674", "U+1D675", "U+1D676", "U+1D677", "U+1D678",
    "U+1D679", "U+1D67A", "U+1D67B", "U+1D67C", "U+1D67D", "U+1D67E",
    "U+1D67F", "U+1D680", "U+1D681", "U+1D682", "U+1D683", "U+1D684",
    "U+1D685", "U+1D686", "U+1D687", "U+1D688", "U+1D689", "U+1D6A8",
    "U+1D6A9", "U+1D6AA", "U+1D6AB", "U+1D6AC", "U+1D6AD", "U+1D6AE",
    "U+1D6AF", "U+1D6B0", "U+1D6B1", "U+1D6B2", "U+1D6B3", "U+1D6B4",
    "U+1D6B5", "U+1D6B6", "U+1D6B7", "U+1D6B8", "U+1D6B9", "U+1D6BA",
    "U+1D6BB", "U+1D6BC", "U+1D6BD", "U+1D6BE", "U+1D6BF", "U+1D6C0",
    "U+1D6E2", "U+1D6E3", "U+1D6E4", "U+1D6E5", "U+1D6E6", "U+1D6E7",
    "U+1D6E8", "U+1D6E9", "U+1D6EA", "U+1D6EB", "U+1D6EC", "U+1D6ED",
    "U+1D6EE", "U+1D6EF", "U+1D6F0", "U+1D6F1", "U+1D6F2", "U+1D6F3",
    "U+1D6F4", "U+1D6F5", "U+1D6F6", "U+1D6F7", "U+1D6F8", "U+1D6F9",
    "U+1D6FA", "U+1D71C", "U+1D71D", "U+1D71E", "U+1D71F", "U+1D720",
    "U+1D721", "U+1D722", "U+1D723", "U+1D724", "U+1D725", "U+1D726",
    "U+1D727", "U+1D728", "U+1D729", "U+1D72A", "U+1D72B", "U+1D72C",
    "U+1D72D", "U+1D72E", "U+1D72F", "U+1D730", "U+1D731", "U+1D732",
    "U+1D733", "U+1D734", "U+1D756", "U+1D757", "U+1D758", "U+1D759",
    "U+1D75A", "U+1D75B", "U+1D75C", "U+1D75D", "U+1D75E", "U+1D75F",
    "U+1D760", "U+1D761", "U+1D762", "U+1D763", "U+1D764", "U+1D765",
    "U+1D766", "U+1D767", "U+1D768", "U+1D769", "U+1D76A", "U+1D76B",
    "U+1D76C", "U+1D76D", "U+1D76E", "U+1D790", "U+1D791", "U+1D792",
    "U+1D793", "U+1D794", "U+1D795", "U+1D796", "U+1D797", "U+1D798",
    "U+1D799", "U+1D79A", "U+1D79B", "U+1D79C", "U+1D79D", "U+1D79E",
    "U+1D79F", "U+1D7A0", "U+1D7A1", "U+1D7A2", "U+1D7A3", "U+1D7A4",
    "U+1D7A5", "U+1D7A6", "U+1D7A7", "U+1D7A8", "U+1D7CA", "U+1E900",
    "U+1E901", "U+1E902", "U+1E903", "U+1E904", "U+1E905", "U+1E906",
    "U+1E907", "U+1E908", "U+1E909", "U+1E90A", "U+1E90B", "U+1E90C",
    "U+1E90D", "U+1E90E", "U+1E90F", "U+1E910", "U+1E911", "U+1E912",
    "U+1E913", "U+1E914", "U+1E915", "U+1E916", "U+1E917", "U+1E918",
    "U+1E919", "U+1E91A", "U+1E91B", "U+1E91C", "U+1E91D", "U+1E91E",
    "U+1E91F", "U+1E920", "U+1E921", "U+1E922", "U+1E923", "U+1E924",
    "U+1E925", "U+1E926", "U+1E927", "U+1E928", "U+1E929", "U+1E92A",
    "U+1E92B", "U+1E92C", "U+1E92D", "U+1E92E", "U+1E92F", "U+1E930",
    "U+1E931", "U+1E932", "U+1E933", "U+1E934", "U+1E935", "U+1E936",
    "U+1E937", "U+1E938", "U+1E939", "U+1E93A", "U+1E93B", "U+1E93C",
    "U+1E93D", "U+1E93E", "U+1E93F", "U+1E940", "U+1E941", "U+1E942",
    "U+1E943">>

CodePoints ==
    <<0, 1, 2, 3, 4, 5, 6, 7, 8, 9, 10, 11, 12, 13, 14, 15, 16,
    17, 18, 19, 20, 21, 22, 23, 24, 25, 26, 27, 28, 29, 30, 31, 32, 33, 34,
    35, 36, 37, 38, 39, 40, 41, 42, 43, 44, 45, 46, 47, 48, 49, 50, 51, 52,
    53, 54, 55, 56, 57, 58, 59, 60, 61, 62, 63, 64, 65, 66, 67, 68, 69, 70,
    71, 72, 73, 74, 75, 76, 77, 78, 79, 80, 81, 82, 83, 84, 85, 86, 87, 88,
    89, 90, 91, 92, 93, 94, 95, 96, 97, 98, 99, 100, 101, 102, 103, 104, 105,
    106, 107, 108, 109, 110, 111, 112, 113, 114, 115, 116, 117, 118, 119,
    120, 121, 122, 123, 124, 125, 126, 127, 128, 129, 130, 131, 132, 133,
    134, 135, 136, 137, 138, 139, 140, 141, 142, 143, 144, 145, 146, 147,
    148, 149, 150, 151, 152, 153, 154, 155, 156, 157, 158, 159, 160, 161,
    162, 163, 164, 165, 166, 167, 168, 169, 170, 171, 172, 173, 174, 175,
    176, 177, 178, 179, 180, 181, 182, 183, 184, 185, 186, 187, 188, 189,
    190, 191, 192, 193, 194, 195, 196, 197, 198, 199, 200, 201, 202, 203,
    204, 205, 206, 207, 208, 209, 210, 211, 212, 213, 214, 215, 216, 217,
    218, 219, 220, 221, 222, 223, 224, 225, 226, 227, 228, 229, 230, 231,
    232, 233, 234, 235, 236, 237, 238, 239, 240, 241, 242, 243, 244, 245,
    246, 247, 248, 249, 250, 251, 252, 253, 254, 255, 256, 257, 258, 259,
    260, 261, 262, 263, 264, 265, 266, 267, 268, 269, 270, 271, 272, 273,
    274, 275, 276, 277, 278, 279, 280, 281, 282, 283, 284, 285, 286, 287,
    288, 289, 290, 291, 292, 293, 294, 295, 296, 297, 298, 299, 300, 301,
    302, 303, 304, 306, 307, 308, 309, 310, 311, 313, 314, 315, 316, 317,
    318, 319, 320, 321, 322, 323, 324, 325, 326, 327, 328, 330, 331, 332,
    333, 334, 335, 336, 337, 338, 339, 340, 341, 342, 343, 344, 345, 346,
    347, 348, 349, 350, 351, 352, 353, 354, 355, 356, 357, 358, 359, 360,
    361, 362, 363, 364, 365, 366, 367, 368, 369, 370, 371, 372, 373, 374,
    375, 376, 377, 378, 379, 380, 381, 382, 384, 385, 386, 387, 388, 389,
    390, 391, 392, 393, 394, 395, 396, 398, 399, 400, 401, 402, 403, 404,
    405, 406, 407, 408, 409, 410, 412, 413, 414, 415, 416, 417, 418, 419,
    420, 421, 422, 423, 424, 425, 428, 429, 430, 431, 432, 433, 434, 435,
    436, 437, 438, 439, 440, 441, 444, 445, 447, 452, 453, 454, 455, 456,
    457, 458, 459, 460, 461, 462, 463, 464, 465, 466, 467, 468, 469, 470,
    471, 472, 473, 474, 475, 476, 477, 478, 479, 480, 481, 482, 483, 484,
    485, 486, 487, 488, 489, 490, 491, 492, 493, 494, 495, 497, 498, 499,
    500, 501, 502, 503, 504, 505, 506, 507, 508, 509, 510, 511, 512, 513,
    514, 515, 516, 517, 518, 519, 520, 521, 522, 523, 524, 525, 526, 527,
    528, 529, 530, 531, 532, 533, 534, 535, 536, 537, 538, 539, 540, 541,
    542, 543, 544, 546, 547, 548, 549, 550, 551, 552, 553, 554, 555, 556,
    557, 558, 559, 560, 561, 562, 563, 570, 571, 572, 573, 574, 575, 576,
    577, 578, 579, 580, 581, 582, 583, 584, 585, 586, 587, 588, 589, 590,
    591, 592, 593, 594, 595, 596, 598, 599, 601, 603, 604, 608, 609, 611,
    613, 614, 616, 617, 618, 619, 620, 623, 625, 626, 629, 637, 640, 642,
    643, 647, 648, 649, 650, 651, 652, 658, 669, 670, 880, 881, 882, 883,
    886, 887, 891, 892, 893, 895, 902, 904, 905, 906, 908, 910, 911, 913,
    914, 915, 916, 917, 918, 919, 920, 921, 922, 923, 924, 925, 926, 927,
    928, 929, 931, 932, 933, 934, 935, 936, 937, 938, 939, 940, 941, 942,
    943, 945, 946, 947, 948, 949, 950, 951, 952, 953, 954, 955, 956, 957,
    958, 959, 960, 961, 963, 964, 965, 966, 967, 968, 969, 970, 971, 972,
    973, 974, 975, 978, 979, 980, 983, 984, 985, 986, 987, 988, 989, 990,
    991, 992, 993, 994, 995, 996, 997, 998, 999, 1000, 1001, 1002, 1003,
    1004, 1005, 1006, 1007, 1010, 1011, 1012, 1015, 1016, 1017, 1018, 1019,
    1021, 1022, 1023, 1024, 1025, 1026, 1027, 1028, 1029, 1030, 1031, 1032,
    1033, 1034, 1035, 1036, 1037, 1038, 1039, 1040, 1041, 1042, 1043, 1044,
    1045, 1046, 1047, 1048, 1049, 1050, 1051, 1052, 1053, 1054, 1055, 1056,
    1057, 1058, 1059, 1060, 1061, 1062, 1063, 1064, 1065, 1066, 1067, 1068,
    1069, 1070, 1071, 1072, 1073, 1074, 1075, 1076, 1077, 1078, 1079, 1080,
    1081, 1082, 1083, 1084, 1085, 1086, 1087, 1088, 1089, 1090, 1091, 1092,
    1093, 1094, 1095, 1096, 1097, 1098, 1099, 1100, 1101, 1102, 1103, 1104,
    1105, 1106, 1107, 1108, 1109, 1110, 1111, 1112, 1113, 1114, 1115, 1116,
    1117, 1118, 1119, 1120, 1121, 1122, 1123, 1124, 1125, 1126, 1127, 1128,
    1129, 1130, 1131, 1132, 1133, 1134, 1135, 1136, 1137, 1138, 1139, 1140,
    1141, 1142, 1143, 1144, 1145, 1146, 1147, 1148, 1149, 1150, 1151, 1152,
    1153, 1162, 1163, 1164, 1165, 1166, 1167, 1168, 1169, 1170, 1171, 1172,
    1173, 1174, 1175, 1176, 1177, 1178, 1179, 1180, 1181, 1182, 1183, 1184,
    1185, 1186, 1187, 1188, 1189, 1190, 1191, 1192, 1193, 1194, 1195, 1196,
    1197, 1198, 1199, 1200, 1201, 1202, 1203, 1204, 1205, 1206, 1207, 1208,
    1209, 1210, 1211, 1212, 1213, 1214, 1215, 1216, 1217, 1218, 1219, 1220,
    1221, 1222, 1223, 1224, 1225, 1226, 1227, 1228, 1229, 1230, 1231, 1232,
    1233, 1234, 1235, 1236, 1237, 1238, 1239, 1240, 1241, 1242, 1243, 1244,
    1245, 1246, 1247, 1248, 1249, 1250, 1251, 1252, 1253, 1254, 1255, 1256,
    1257, 1258, 1259, 1260, 1261, 1262, 1263, 1264, 1265, 1266, 1267, 1268,
    1269, 1270, 1271, 1272, 1273, 1274, 1275, 1276, 1277, 1278, 1279, 1280,
    1281, 1282, 1283, 1284, 1285, 1286, 1287, 1288, 1289, 1290, 1291, 1292,
    1293, 1294, 1295, 1296, 1297, 1298, 1299, 1300, 1301, 1302, 1303, 1304,
    1305, 1306, 1307, 1308, 1309, 1310, 1311, 1312, 1313, 1314, 1315, 1316,
    1317, 1318, 1319, 1320, 1321, 1322, 1323, 1324, 1325, 1326, 1327, 1329,
    1330, 1331, 1332, 1333, 1334, 1335, 1336, 1337, 1338, 1339, 1340, 1341,
    1342, 1343, 1344, 1345, 1346, 1347, 1348, 1349, 1350, 1351, 1352, 1353,
    1354, 1355, 1356, 1357, 1358, 1359, 1360, 1361, 1362, 1363, 1364, 1365,
    1366, 1377, 1378, 1379, 1380, 1381, 1382, 1383, 1384, 1385, 1386, 1387,
    1388, 1389, 1390, 1391, 1392, 1393, 1394, 1395, 1396, 1397, 1398, 1399,
    1400, 1401, 1402, 1403, 1404, 1405, 1406, 1407, 1408, 1409, 1410, 1411,
    1412, 1413, 1414, 4256, 4257, 4258, 4259, 4260, 4261, 4262, 4263, 4264,
    4265, 4266, 4267, 4268, 4269, 4270, 4271, 4272, 4273, 4274, 4275, 4276,
    4277, 4278, 4279, 4280, 4281, 4282, 4283, 4284, 4285, 4286, 4287, 4288,
    4289, 4290, 4291, 4292, 4293, 4295, 4301, 4304, 4305, 4306, 4307, 4308,
    4309, 4310, 4311, 4312, 4313, 4314, 4315, 4316, 4317, 4318, 4319, 4320,
    4321, 4322, 4323, 4324, 4325, 4326, 4327, 4328, 4329, 4330, 4331, 4332,
    4333, 4334, 4335, 4336, 4337, 4338, 4339, 4340, 4341, 4342, 4343, 4344,
    4345, 4346, 4349, 4350, 4351, 5024, 5025, 5026, 5027, 5028, 5029, 5030,
    5031, 5032, 5033, 5034, 5035, 5036, 5037, 5038, 5039, 5040, 5041, 5042,
    5043, 5044, 5045, 5046, 5047, 5048, 5049, 5050, 5051, 5052, 5053, 5054,
    5055, 5056, 5057, 5058, 5059, 5060, 5061, 5062, 5063, 5064, 5065, 5066,
    5067, 5068, 5069, 5070, 5071, 5072, 5073, 5074, 5075, 5076, 5077, 5078,
    5079, 5080, 5081, 5082, 5083, 5084, 5085, 5086, 5087, 5088, 5089, 5090,
    5091, 5092, 5093, 5094, 5095, 5096, 5097, 5098, 5099, 5100, 5101, 5102,
    5103, 5104, 5105, 5106, 5107, 5108, 5109, 5112, 5113, 5114, 5115, 5116,
    5117, 7312, 7313, 7314, 7315, 7316, 7317, 7318, 7319, 7320, 7321, 7322,
    7323, 7324, 7325, 7326, 7327, 7328, 7329, 7330, 7331, 7332, 7333, 7334,
    7335, 7336, 7337, 7338, 7339, 7340, 7341, 7342, 7343, 7344, 7345, 7346,
    7347, 7348, 7349, 7350, 7351, 7352, 7353, 7354, 7357, 7358, 7359, 7545,
    7549, 7566, 7680, 7681, 7682, 7683, 7684, 7685, 7686, 7687, 7688, 7689,
    7690, 7691, 7692, 7693, 7694, 7695, 7696, 7697, 7698, 7699, 7700, 7701,
    7702, 7703, 7704, 7705, 7706, 7707, 7708, 7709, 7710, 7711, 7712, 7713,
    7714, 7715, 7716, 7717, 7718, 7719, 7720, 7721, 7722, 7723, 7724, 7725,
    7726, 7727, 7728, 7729, 7730, 7731, 7732, 7733, 7734, 7735, 7736, 7737,
    7738, 7739, 7740, 7741, 7742, 7743, 7744, 7745, 7746, 7747, 7748, 7749,
    7750, 7751, 7752, 7753, 7754, 7755, 7756, 7757, 7758, 7759, 7760, 7761,
    7762, 7763, 7764, 7765, 7766, 7767, 7768, 7769, 7770, 7771, 7772, 7773,
    7774, 7775, 7776, 7777, 7778, 7779, 7780, 7781, 7782, 7783, 7784, 7785,
    7786, 7787, 7788, 7789, 7790, 7791, 7792, 7793, 7794, 7795, 7796, 7797,
    7798, 7799, 7800, 7801, 7802, 7803, 7804, 7805, 7806, 7807, 7808, 7809,
    7810, 7811, 7812, 7813, 7814, 7815, 7816, 7817, 7818, 7819, 7820, 7821,
    7822, 7823, 7824, 7825, 7826, 7827, 7828, 7829, 7838, 7840, 7841, 7842,
    7843, 7844, 7845, 7846, 7847, 7848, 7849, 7850, 7851, 7852, 7853, 7854,
    7855, 7856, 7857, 7858, 7859, 7860, 7861, 7862, 7863, 7864, 7865, 7866,
    7867, 7868, 7869, 7870, 7871, 7872, 7873, 7874, 7875, 7876, 7877, 7878,
    7879, 7880, 7881, 7882, 7883, 7884, 7885, 7886, 7887, 7888, 7889, 7890,
    7891, 7892, 7893, 7894, 7895, 7896, 7897, 7898, 7899, 7900, 7901, 7902,
    7903, 7904, 7905, 7906, 7907, 7908, 7909, 7910, 7911, 7912, 7913, 7914,
    7915, 7916, 7917, 7918, 7919, 7920, 7921, 7922, 7923, 7924, 7925, 7926,
    7927, 7928, 7929, 7930, 7931, 7932, 7933, 7934, 7935, 7936, 7937, 7938,
    7939, 7940, 7941, 7942, 7943, 7944, 7945, 7946, 7947, 7948, 7949, 7950,
    7951, 7952, 7953, 7954, 7955, 7956, 7957, 7960, 7961, 7962, 7963, 7964,
    7965, 7968, 7969, 7970, 7971, 7972, 7973, 7974, 7975, 7976, 7977, 7978,
    7979, 7980, 7981, 7982, 7983, 7984, 7985, 7986, 7987, 7988, 7989, 7990,
    7991, 7992, 7993, 7994, 7995, 7996, 7997, 7998, 7999, 8000, 8001, 8002,
    8003, 8004, 8005, 8008, 8009, 8010, 8011, 8012, 8013, 8017, 8019, 8021,
    8023, 8025, 8027, 8029, 8031, 8032, 8033, 8034, 8035, 8036, 8037, 8038,
    8039, 8040, 8041, 8042, 8043, 8044, 8045, 8046, 8047, 8048, 8049, 8050,
    8051, 8052, 8053, 8054, 8055, 8056, 8057, 8058, 8059, 8060, 8061, 8064,
    8065, 8066, 8067, 8068, 8069, 8070, 8071, 8072, 8073, 8074, 8075, 8076,
    8077, 8078, 8079, 8080, 8081, 8082, 8083, 8084, 8085, 8086, 8087, 8088,
    8089, 8090, 8091, 8092, 8093, 8094, 8095, 8096, 8097, 8098, 8099, 8100,
    8101, 8102, 8103, 8104, 8105, 8106, 8107, 8108, 8109, 8110, 8111, 8112,
    8113, 8115, 8120, 8121, 8122, 8123, 8124, 8131, 8136, 8137, 8138, 8139,
    8140, 8144, 8145, 8152, 8153, 8154, 8155, 8160, 8161, 8165, 8168, 8169,
    8170, 8171, 8172, 8179, 8184, 8185, 8186, 8187, 8188, 8232, 8233, 8450,
    8455, 8459, 8460, 8461, 8464, 8465, 8466, 8469, 8473, 8474, 8475, 8476,
    8477, 8484, 8486, 8488, 8490, 8491, 8492, 8493, 8496, 8497, 8498, 8499,
    8510, 8511, 8517, 8526, 8544, 8545, 8546, 8547, 8548, 8549, 8550, 8551,
    8552, 8553, 8554, 8555, 8556, 8557, 8558, 8559, 8560, 8561, 8562, 8563,
    8564, 8565, 8566, 8567, 8568, 8569, 8570, 8571, 8572, 8573, 8574, 8575,
    8579, 8580, 9398, 9399, 9400, 9401, 9402, 9403, 9404, 9405, 9406, 9407,
    9408, 9409, 9410, 9411, 9412, 9413, 9414, 9415, 9416, 9417, 9418, 9419,
    9420, 9421, 9422, 9423, 9424, 9425, 9426, 9427, 9428, 9429, 9430, 9431,
    9432, 9433, 9434, 9435, 9436, 9437, 9438, 9439, 9440, 9441, 9442, 9443,
    9444, 9445, 9446, 9447, 9448, 9449, 11264, 11265, 11266, 11267, 11268,
    11269, 11270, 11271, 11272, 11273, 11274, 11275, 11276, 11277, 11278,
    11279, 11280, 11281, 11282, 11283, 11284, 11285, 11286, 11287, 11288,
    11289, 11290, 11291, 11292, 11293, 11294, 11295, 11296, 11297, 11298,
    11299, 11300, 11301, 11302, 11303, 11304, 11305, 11306, 11307, 11308,
    11309, 11310, 11311, 11312, 11313, 11314, 11315, 11316, 11317, 11318,
    11319, 11320, 11321, 11322, 11323, 11324, 11325, 11326, 11327, 11328,
    11329, 11330, 11331, 11332, 11333, 11334, 11335, 11336, 11337, 11338,
    11339, 11340, 11341, 11342, 11343, 11344, 11345, 11346, 11347, 11348,
    11349, 11350, 11351, 11352, 11353, 11354, 11355, 11356, 11357, 11358,
    11359, 11360, 11361, 11362, 11363, 11364, 11365, 11366, 11367, 11368,
    11369, 11370, 11371, 11372, 11373, 11374, 11375, 11376, 11378, 11379,
    11381, 11382, 11390, 11391, 11392, 11393, 11394, 11395, 11396, 11397,
    11398, 11399, 11400, 11401, 11402, 11403, 11404, 11405, 11406, 11407,
    11408, 11409, 11410, 11411, 11412, 11413, 11414, 11415, 11416, 11417,
    11418, 11419, 11420, 11421, 11422, 11423, 11424, 11425, 11426, 11427,
    11428, 11429, 11430, 11431, 11432, 11433, 11434, 11435, 11436, 11437,
    11438, 11439, 11440, 11441, 11442, 11443, 11444, 11445, 11446, 11447,
    11448, 11449, 11450, 11451, 11452, 11453, 11454, 11455, 11456, 11457,
    11458, 11459, 11460, 11461, 11462, 11463, 11464, 11465, 11466, 11467,
    11468, 11469, 11470, 11471, 11472, 11473, 11474, 11475, 11476, 11477,
    11478, 11479, 11480, 11481, 11482, 11483, 11484, 11485, 11486, 11487,
    11488, 11489, 11490, 11491, 11499, 11500, 11501, 11502, 11506, 11507,
    11520, 11521, 11522, 11523, 11524, 11525, 11526, 11527, 11528, 11529,
    11530, 11531, 11532, 11533, 11534, 11535, 11536, 11537, 11538, 11539,
    11540, 11541, 11542, 11543, 11544, 11545, 11546, 11547, 11548, 11549,
    11550, 11551, 11552, 11553, 11554, 11555, 11556, 11557, 11559, 11565,
    42560, 42561, 42562, 42563, 42564, 42565, 42566, 42567, 42568, 42569,
    42570, 42571, 42572, 42573, 42574, 42575, 42576, 42577, 42578, 42579,
    42580, 42581, 42582, 42583, 42584, 42585, 42586, 42587, 42588, 42589,
    42590, 42591, 42592, 42593, 42594, 42595, 42596, 42597, 42598, 42599,
    42600, 42601, 42602, 42603, 42604, 42605, 42624, 42625, 42626, 42627,
    42628, 42629, 42630, 42631, 42632, 42633, 42634, 42635, 42636, 42637,
    42638, 42639, 42640, 42641, 42642, 42643, 42644, 42645, 42646, 42647,
    42648, 42649, 42650, 42651, 42786, 42787, 42788, 42789, 42790, 42791,
    42792, 42793, 42794, 42795, 42796, 42797, 42798, 42799, 42802, 42803,
    42804, 42805, 42806, 42807, 42808, 42809, 42810, 42811, 42812, 42813,
    42814, 42815, 42816, 42817, 42818, 42819, 42820, 42821, 42822, 42823,
    42824, 42825, 42826, 42827, 42828, 42829, 42830, 42831, 42832, 42833,
    42834, 42835, 42836, 42837, 42838, 42839, 42840, 42841, 42842, 42843,
    42844, 42845, 42846, 42847, 42848, 42849, 42850, 42851, 42852, 42853,
    42854, 42855, 42856, 42857, 42858, 42859, 42860, 42861, 42862, 42863,
    42873, 42874, 42875, 42876, 42877, 42878, 42879, 42880, 42881, 42882,
    42883, 42884, 42885, 42886, 42887, 42891, 42892, 42893, 42896, 42897,
    42898, 42899, 42900, 42902, 42903, 42904, 42905, 42906, 42907, 42908,
    42909, 42910, 42911, 42912, 42913, 42914, 42915, 42916, 42917, 42918,
    42919, 42920, 42921, 42922, 42923, 42924, 42925, 42926, 42928, 42929,
    42930, 42931, 42932, 42933, 42934, 42935, 42936, 42937, 42938, 42939,
    42940, 42941, 42942, 42943, 42944, 42945, 42946, 42947, 42948, 42949,
    42950, 42951, 42952, 42953, 42954, 42960, 42961, 42966, 42967, 42968,
    42969, 42997, 42998, 43859, 43888, 43889, 43890, 43891, 43892, 43893,
    43894, 43895, 43896, 43897, 43898, 43899, 43900, 43901, 43902, 43903,
    43904, 43905, 43906, 43907, 43908, 43909, 43910, 43911, 43912, 43913,
    43914, 43915, 43916, 43917, 43918, 43919, 43920, 43921, 43922, 43923,
    43924, 43925, 43926, 43927, 43928, 43929, 43930, 43931, 43932, 43933,
    43934, 43935, 43936, 43937, 43938, 43939, 43940, 43941, 43942, 43943,
    43944, 43945, 43946, 43947, 43948, 43949, 43950, 43951, 43952, 43953,
    43954, 43955, 43956, 43957, 43958, 43959, 43960, 43961, 43962, 43963,
    43964, 43965, 43966, 43967, 65313, 65314, 65315, 65316, 65317, 65318,
    65319, 65320, 65321, 65322, 65323, 65324, 65325, 65326, 65327, 65328,
    65329, 65330, 65331, 65332, 65333, 65334, 65335, 65336, 65337, 65338,
    65345, 65346, 65347, 65348, 65349, 65350, 65351, 65352, 65353, 65354,
    65355, 65356, 65357, 65358, 65359, 65360, 65361, 65362, 65363, 65364,
    65365, 65366, 65367, 65368, 65369, 65370, 65533, 66560, 66561, 66562,
    66563, 66564, 66565, 66566, 66567, 66568, 66569, 66570, 66571, 66572,
    66573, 66574, 66575, 66576, 66577, 66578, 66579, 66580, 66581, 66582,
    66583, 66584, 66585, 66586, 66587, 66588, 66589, 66590, 66591, 66592,
    66593, 66594, 66595, 66596, 66597, 66598, 66599, 66600, 66601, 66602,
    66603, 66604, 66605, 66606, 66607, 66608, 66609, 66610, 66611, 66612,
    66613, 66614, 66615, 66616, 66617, 66618, 66619, 66620, 66621, 66622,
    66623, 66624, 66625, 66626, 66627, 66628, 66629, 66630, 66631, 66632,
    66633, 66634, 66635, 66636, 66637, 66638, 66639, 66736, 66737, 66738,
    66739, 66740, 66741, 66742, 66743, 66744, 66745, 66746, 66747, 66748,
    66749, 66750, 66751, 66752, 66753, 66754, 66755, 66756, 66757, 66758,
    66759, 66760, 66761, 66762, 66763, 66764, 66765, 66766, 66767, 66768,
    66769, 66770, 66771, 66776, 66777, 66778, 66779, 66780, 66781, 66782,
    66783, 66784, 66785, 66786, 66787, 66788, 66789, 66790, 66791, 66792,
    66793, 66794, 66795, 66796, 66797, 66798, 66799, 66800, 66801, 66802,
    66803, 66804, 66805, 66806, 66807, 66808, 66809, 66810, 66811, 66928,
    66929, 66930, 66931, 66932, 66933, 66934, 66935, 66936, 66937, 66938,
    66940, 66941, 66942, 66943, 66944, 66945, 66946, 66947, 66948, 66949,
    66950, 66951, 66952, 66953, 66954, 66956, 66957, 66958, 66959, 66960,
    66961, 66962, 66964, 66965, 66967, 66968, 66969, 66970, 66971, 66972,
    66973, 66974, 66975, 66976, 66977, 66979, 66980, 66981, 66982, 66983,
    66984, 66985, 66986, 66987, 66988, 66989, 66990, 66991, 66992, 66993,
    66995, 66996, 66997, 66998, 66999, 67000, 67001, 67003, 67004, 68736,
    68737, 68738, 68739, 68740, 68741, 68742, 68743, 68744, 68745, 68746,
    68747, 68748, 68749, 68750, 68751, 68752, 68753, 68754, 68755, 68756,
    68757, 68758, 68759, 68760, 68761, 68762, 68763, 68764, 68765, 68766,
    68767, 68768, 68769, 68770, 68771, 68772, 68773, 68774, 68775, 68776,
    68777, 68778, 68779, 68780, 68781, 68782, 68783, 68784, 68785, 68786,
    68800, 68801, 68802, 68803, 68804, 68805, 68806, 68807, 68808, 68809,
    68810, 68811, 68812, 68813, 68814, 68815, 68816, 68817, 68818, 68819,
    68820, 68821, 68822, 68823, 68824, 68825, 68826, 68827, 68828, 68829,
    68830, 68831, 68832, 68833, 68834, 68835, 68836, 68837, 68838, 68839,
    68840, 68841, 68842, 68843, 68844, 68845, 68846, 68847, 68848, 68849,
    68850, 71840, 71841, 71842, 71843, 71844, 71845, 71846, 71847, 71848,
    71849, 71850, 71851, 71852, 71853, 71854, 71855, 71856, 71857, 71858,
    71859, 71860, 71861, 71862, 71863, 71864, 71865, 71866, 71867, 71868,
    71869, 71870, 71871, 71872, 71873, 71874, 71875, 71876, 71877, 71878,
    71879, 71880, 71881, 71882, 71883, 71884, 71885, 71886, 71887, 71888,
    71889, 71890, 71891, 71892, 71893, 71894, 71895, 71896, 71897, 71898,
    71899, 71900, 71901, 71902, 71903, 93760, 93761, 93762, 93763, 93764,
    93765, 93766, 93767, 93768, 93769, 93770, 93771, 93772, 93773, 93774,
    93775, 93776, 93777, 93778, 93779, 93780, 93781, 93782, 93783, 93784,
    93785, 93786, 93787, 93788, 93789, 93790, 93791, 93792, 93793, 93794,
    93795, 93796, 93797, 93798, 93799, 93800, 93801, 93802, 93803, 93804,
    93805, 93806, 93807, 93808, 93809, 93810, 93811, 93812, 93813, 93814,
    93815, 93816, 93817, 93818, 93819, 93820, 93821, 93822, 93823, 119808,
    119809, 119810, 119811, 119812, 119813, 119814, 119815, 119816, 119817,
    119818, 119819, 119820, 119821, 119822, 119823, 119824, 119825, 119826,
    119827, 119828, 119829, 119830, 119831, 119832, 119833, 119860, 119861,
    119862, 119863, 119864, 119865, 119866, 119867, 119868, 119869, 119870,
    119871, 119872, 119873, 119874, 119875, 119876, 119877, 119878, 119879,
    119880, 119881, 119882, 119883, 119884, 119885, 119912, 119913, 119914,
    119915, 119916, 119917, 119918, 119919, 119920, 119921, 119922, 119923,
    119924, 119925, 119926, 119927, 119928, 119929, 119930, 119931, 119932,
    119933, 119934, 119935, 119936, 119937, 119964, 119966, 119967, 119970,
    119973, 119974, 119977, 119978, 119979, 119980, 119982, 119983, 119984,
    119985, 119986, 119987, 119988, 119989, 120016, 120017, 120018, 120019,
    120020, 120021, 120022, 120023, 120024, 120025, 120026, 120027, 120028,
    120029, 120030, 120031, 120032, 120033, 120034, 120035, 120036, 120037,
    120038, 120039, 120040, 120041, 120068, 120069, 120071, 120072, 120073,
    120074, 120077, 120078, 120079, 120080, 120081, 120082, 120083, 120084,
    120086, 120087, 120088, 120089, 120090, 120091, 120092, 120120, 120121,
    120123, 120124, 120125, 120126, 120128, 120129, 120130, 120131, 120132,
    120134, 120138, 120139, 120140, 120141, 120142, 120143, 120144, 120172,
    120173, 120174, 120175, 120176, 120177, 120178, 120179, 120180, 120181,
    120182, 120183, 120184, 120185, 120186, 120187, 120188, 120189, 120190,
    120191, 120192, 120193, 120194, 120195, 120196, 120197, 120224, 120225,
    120226, 120227, 120228, 120229, 120230, 120231, 120232, 120233, 120234,
    120235, 120236, 120237, 120238, 120239, 120240, 120241, 120242, 120243,
    120244, 120245, 120246, 120247, 120248, 120249, 120276, 120277, 120278,
    120279, 120280, 120281, 120282, 120283, 120284, 120285, 120286, 120287,
    120288, 120289, 120290, 120291, 120292, 120293, 120294, 120295, 120296,
    120297, 120298, 120299, 120300, 120301, 120328, 120329, 120330, 120331,
    120332, 120333, 120334, 120335, 120336, 120337, 120338, 120339, 120340,
    120341, 120342, 120343, 120344, 120345, 120346, 120347, 120348, 120349,
    120350, 120351, 120352, 120353, 120380, 120381, 120382, 120383, 120384,
    120385, 120386, 120387, 120388, 120389, 120390, 120391, 120392, 120393,
    120394, 120395, 120396, 120397, 120398, 120399, 120400, 120401, 120402,
    120403, 120404, 120405, 120432, 120433, 120434, 120435, 120436, 120437,
    120438, 120439, 120440, 120441, 120442, 120443, 120444, 120445, 120446,
    120447, 120448, 120449, 120450, 120451, 120452, 120453, 120454, 120455,
    120456, 120457, 120488, 120489, 120490, 120491, 120492, 120493, 120494,
    120495, 120496, 120497, 120498, 120499, 120500, 120501, 120502, 120503,
    120504, 120505, 120506, 120507, 120508, 120509, 120510, 120511, 120512,
    120546, 120547, 120548, 120549, 120550, 120551, 120552, 120553, 120554,
    120555, 120556, 120557, 120558, 120559, 120560, 120561, 120562, 120563,
    120564, 120565, 120566, 120567, 120568, 120569, 120570, 120604, 120605,
    120606, 120607, 120608, 120609, 120610, 120611, 120612, 120613, 120614,
    120615, 120616, 120617, 120618, 120619, 120620, 120621, 120622, 120623,
    120624, 120625, 120626, 120627, 120628, 120662, 120663, 120664, 120665,
    120666, 120667, 120668, 120669, 120670, 120671, 120672, 120673, 120674,
    120675, 120676, 120677, 120678, 120679, 120680, 120681, 120682, 120683,
    120684, 120685, 120686, 120720, 120721, 120722, 120723, 120724, 120725,
    120726, 120727, 120728, 120729, 120730, 120731, 120732, 120733, 120734,
    120735, 120736, 120737, 120738, 120739, 120740, 120741, 120742, 120743,
    120744, 120778, 125184, 125185, 125186, 125187, 125188, 125189, 125190,
    125191, 125192, 125193, 125194, 125195, 125196, 125197, 125198, 125199,
    125200, 125201, 125202, 125203, 125204, 125205, 125206, 125207, 125208,
    125209, 125210, 125211, 125212, 125213, 125214, 125215, 125216, 125217,
    125218, 125219, 125220, 125221, 125222, 125223, 125224, 125225, 125226,
    125227, 125228, 125229, 125230, 125231, 125232, 125233, 125234, 125235,
    125236, 125237, 125238, 125239, 125240, 125241, 125242, 125243, 125244,
    125245, 125246, 125247, 125248, 125249, 125250, 125251>>

UpperLetters ==
    {"A", "B", "C", "D", "E", "F", "G", "H", "I", "J", "K",
    "L", "M", "N", "O", "P", "Q", "R", "S", "T", "U", "V", "W", "X", "Y",
    "Z", "À", "Á", "Â", "Ã", "Ä", "Å", "Æ", "Ç", "È", "É", "Ê", "Ë", "Ì",
    "Í", "Î", "Ï", "Ð", "Ñ", "Ò", "Ó", "Ô", "Õ", "Ö", "Ø", "Ù", "Ú", "Û",
    "Ü", "Ý", "Þ", "U+0100", "U+0102", "U+0104", "U+0106", "U+0108",
    "U+010A", "U+010C", "U+010E", "U+0110", "U+0112", "U+0114", "U+0116",
    "U+0118", "U+011A", "U+011C", "U+011E", "U+0120", "U+0122", "U+0124",
    "U+0126", "U+0128", "U+012A", "U+012C", "U+012E", "U+0130", "U+0132",
    "U+0134", "U+0136", "U+0139", "U+013B", "U+013D", "U+013F", "U+0141",
    "U+0143", "U+0145", "U+0147", "U+014A", "U+014C", "U+014E", "U+0150",
    "U+0152", "U+0154", "U+0156", "U+0158", "U+015A", "U+015C", "U+015E",
    "U+0160", "U+0162", "U+0164", "U+0166", "U+0168", "U+016A", "U+016C",
    "U+016E", "U+0170", "U+0172", "U+0174", "U+0176", "U+0178", "U+0179",
    "U+017B", "U+017D", "U+0181", "U+0182", "U+0184", "U+0186", "U+0187",
    "U+0189", "U+018A", "U+018B", "U+018E", "U+018F", "U+0190", "U+0191",
    "U+0193", "U+0194", "U+0196", "U+0197", "U+0198", "U+019C", "U+019D",
    "U+019F", "U+01A0", "U+01A2", "U+01A4", "U+01A6", "U+01A7", "U+01A9",
    "U+01AC", "U+01AE", "U+01AF", "U+01B1", "U+01B2", "U+01B3", "U+01B5",
    "U+01B7", "U+01B8", "U+01BC", "Ǆ", "Ǉ", "Ǌ", "U+01CD", "U+01CF",
    "U+01D1", "U+01D3", "U+01D5", "U+01D7", "U+01D9", "U+01DB", "U+01DE",
    "U+01E0", "U+01E2", "U+01E4", "U+01E6", "U+01E8", "U+01EA", "U+01EC",
    "U+01EE", "U+01F1", "U+01F4", "U+01F6", "U+01F7", "U+01F8", "U+01FA",
    "U+01FC", "U+01FE", "U+0200", "U+0202", "U+0204", "U+0206", "U+0208",
    "U+020A", "U+020C", "U+020E", "U+0210", "U+0212", "U+0214", "U+0216",
    "U+0218", "U+021A", "U+021C", "U+021E", "U+0220", "U+0222", "U+0224",
    "U+0226", "U+0228", "U+022A", "U+022C", "U+022E", "U+0230", "U+0232",
    "U+023A", "U+023B", "U+023D", "U+023E", "U+0241", "U+0243", "U+0244",
    "U+0245", "U+0246", "U+0248", "U+024A", "U+024C", "U+024E", "U+0370",
    "U+0372", "U+0376", "U+037F", "Ά", "Έ", "Ή", "Ί", "Ό", "Ύ", "Ώ", "Α",
    "Β", "Γ", "Δ", "Ε", "Ζ", "Η", "Θ", "Ι", "Κ", "Λ", "Μ", "Ν", "Ξ", "Ο",
    "Π", "Ρ", "Σ", "Τ", "Υ", "Φ", "Χ", "Ψ", "Ω", "Ϊ", "Ϋ", "U+03CF",
    "U+03D2", "U+03D3", "U+03D4", "U+03D8", "U+03DA", "U+03DC", "U+03DE",
    "U+03E0", "U+03E2", "U+03E4", "U+03E6", "U+03E8", "U+03EA", "U+03EC",
    "U+03EE", "U+03F4", "U+03F7", "U+03F9", "U+03FA", "U+03FD", "U+03FE",
    "U+03FF", "U+0400", "U+0401", "U+0402", "U+0403", "U+0404", "U+0405",
    "U+0406", "U+0407", "U+0408", "U+0409", "U+040A", "U+040B", "U+040C",
    "U+040D", "U+040E", "U+040F", "U+0410", "U+0411", "U+0412", "U+0413",
    "U+0414", "U+0415", "U+0416", "U+0417", "U+0418", "U+0419", "U+041A",
    "U+041B", "U+041C", "U+041D", "U+041E", "U+041F", "U+0420", "U+0421",
    "U+0422", "U+0423", "U+0424", "U+0425", "U+0426", "U+0427", "U+0428",
    "U+0429", "U+042A", "U+042B", "U+042C", "U+042D", "U+042E", "U+042F",
    "U+0460", "U+0462", "U+0464", "U+0466", "U+0468", "U+046A", "U+046C",
    "U+046E", "U+0470", "U+0472", "U+0474", "U+0476", "U+0478", "U+047A",
    "U+047C", "U+047E", "U+0480", "U+048A", "U+048C", "U+048E", "U+0490",
    "U+0492", "U+0494", "U+0496", "U+0498", "U+049A", "U+049C", "U+049E",
    "U+04A0", "U+04A2", "U+04A4", "U+04A6", "U+04A8", "U+04AA", "U+04AC",
    "U+04AE", "U+04B0", "U+04B2", "U+04B4", "U+04B6", "U+04B8", "U+04BA",
    "U+04BC", "U+04BE", "U+04C0", "U+04C1", "U+04C3", "U+04C5", "U+04C7",
    "U+04C9", "U+04CB", "U+04CD", "U+04D0", "U+04D2", "U+04D4", "U+04D6",
    "U+04D8", "U+04DA", "U+04DC", "U+04DE", "U+04E0", "U+04E2", "U+04E4",
    "U+04E6", "U+04E8", "U+04EA", "U+04EC", "U+04EE", "U+04F0", "U+04F2",
    "U+04F4", "U+04F6", "U+04F8", "U+04FA", "U+04FC", "U+04FE", "U+0500",
    "U+0502", "U+0504", "U+0506", "U+0508", "U+050A", "U+050C", "U+050E",
    "U+0510", "U+0512", "U+0514", "U+0516", "U+0518", "U+051A", "U+051C",
    "U+051E", "U+0520", "U+0522", "U+0524", "U+0526", "U+0528", "U+052A",
    "U+052C", "U+052E", "U+0531", "U+0532", "U+0533", "U+0534", "U+0535",
    "U+0536", "U+0537", "U+0538", "U+0539", "U+053A", "U+053B", "U+053C",
    "U+053D", "U+053E", "U+053F", "U+0540", "U+0541", "U+0542", "U+0543",
    "U+0544", "U+0545", "U+0546", "U+0547", "U+0548", "U+0549", "U+054A",
    "U+054B", "U+054C", "U+054D", "U+054E", "U+054F", "U+0550", "U+0551",
    "U+0552", "U+0553", "U+0554", "U+0555", "U+0556", "U+10A0", "U+10A1",
    "U+10A2", "U+10A3", "U+10A4", "U+10A5", "U+10A6", "U+10A7", "U+10A8",
    "U+10A9", "U+10AA", "U+10AB", "U+10AC", "U+10AD", "U+10AE", "U+10AF",
    "U+10B0", "U+10B1", "U+10B2", "U+10B3", "U+10B4", "U+10B5", "U+10B6",
    "U+10B7", "U+10B8", "U+10B9", "U+10BA", "U+10BB", "U+10BC", "U+10BD",
    "U+10BE", "U+10BF", "U+10C0", "U+10C1", "U+10C2", "U+10C3", "U+10C4",
    "U+10C5", "U+10C7", "U+10CD", "U+13A0", "U+13A1", "U+13A2", "U+13A3",
    "U+13A4", "U+13A5", "U+13A6", "U+13A7", "U+13A8", "U+13A9", "U+13AA",
    "U+13AB", "U+13AC", "U+13AD", "U+13AE", "U+13AF", "U+13B0", "U+13B1",
    "U+13B2", "U+13B3", "U+13B4", "U+13B5", "U+13B6", "U+13B7", "U+13B8",
    "U+13B9", "U+13BA", "U+13BB", "U+13BC", "U+13BD", "U+13BE", "U+13BF",
    "U+13C0", "U+13C1", "U+13C2", "U+13C3", "U+13C4", "U+13C5", "U+13C6",
    "U+13C7", "U+13C8", "U+13C9", "U+13CA", "U+13CB", "U+13CC", "U+13CD",
    "U+13CE", "U+13CF", "U+13D0", "U+13D1", "U+13D2", "U+13D3", "U+13D4",
    "U+13D5", "U+13D6", "U+13D7", "U+13D8", "U+13D9", "U+13DA", "U+13DB",
    "U+13DC", "U+13DD", "U+13DE", "U+13DF", "U+13E0", "U+13E1", "U+13E2",
    "U+13E3", "U+13E4", "U+13E5", "U+13E6", "U+13E7", "U+13E8", "U+13E9",
    "U+13EA", "U+13EB", "U+13EC", "U+13ED", "U+13EE", "U+13EF", "U+13F0",
    "U+13F1", "U+13F2", "U+13F3", "U+13F4", "U+13F5", "U+1C90", "U+1C91",
    "U+1C92", "U+1C93", "U+1C94", "U+1C95", "U+1C96", "U+1C97", "U+1C98",
    "U+1C99", "U+1C9A", "U+1C9B", "U+1C9C", "U+1C9D", "U+1C9E", "U+1C9F",
    "U+1CA0", "U+1CA1", "U+1CA2", "U+1CA3", "U+1CA4", "U+1CA5", "U+1CA6",
    "U+1CA7", "U+1CA8", "U+1CA9", "U+1CAA", "U+1CAB", "U+1CAC", "U+1CAD",
    "U+1CAE", "U+1CAF", "U+1CB0", "U+1CB1", "U+1CB2", "U+1CB3", "U+1CB4",
    "U+1CB5", "U+1CB6", "U+1CB7", "U+1CB8", "U+1CB9", "U+1CBA", "U+1CBD",
    "U+1CBE", "U+1CBF", "U+1E00", "U+1E02", "U+1E04", "U+1E06", "U+1E08",
    "U+1E0A", "U+1E0C", "U+1E0E", "U+1E10", "U+1E12", "U+1E14", "U+1E16",
    "U+1E18", "U+1E1A", "U+1E1C", "U+1E1E", "U+1E20", "U+1E22", "U+1E24",
    "U+1E26", "U+1E28", "U+1E2A", "U+1E2C", "U+1E2E", "U+1E30", "U+1E32",
    "U+1E34", "U+1E36", "U+1E38", "U+1E3A", "U+1E3C", "U+1E3E", "U+1E40",
    "U+1E42", "U+1E44", "U+1E46", "U+1E48", "U+1E4A", "U+1E4C", "U+1E4E",
    "U+1E50", "U+1E52", "U+1E54", "U+1E56", "U+1E58", "U+1E5A", "U+1E5C",
    "U+1E5E", "U+1E60", "U+1E62", "U+1E64", "U+1E66", "U+1E68", "U+1E6A",
    "U+1E6C", "U+1E6E", "U+1E70", "U+1E72", "U+1E74", "U+1E76", "U+1E78",
    "U+1E7A", "U+1E7C", "U+1E7E", "U+1E80", "U+1E82", "U+1E84", "U+1E86",
    "U+1E88", "U+1E8A", "U+1E8C", "U+1E8E", "U+1E90", "U+1E92", "U+1E94",
    "U+1E9E", "U+1EA0", "U+1EA2", "U+1EA4", "U+1EA6", "U+1EA8", "U+1EAA",
    "U+1EAC", "U+1EAE", "U+1EB0", "U+1EB2", "U+1EB4", "U+1EB6", "U+1EB8",
    "U+1EBA", "U+1EBC", "U+1EBE", "U+1EC0", "U+1EC2", "U+1EC4", "U+1EC6",
    "U+1EC8", "U+1ECA", "U+1ECC", "U+1ECE", "U+1ED0", "U+1ED2", "U+1ED4",
    "U+1ED6", "U+1ED8", "U+1EDA", "U+1EDC", "U+1EDE", "U+1EE0", "U+1EE2",
    "U+1EE4", "U+1EE6", "U+1EE8", "U+1EEA", "U+1EEC", "U+1EEE", "U+1EF0",
    "U+1EF2", "U+1EF4", "U+1EF6", "U+1EF8", "U+1EFA", "U+1EFC", "U+1EFE",
    "U+1F08", "U+1F09", "U+1F0A", "U+1F0B", "U+1F0C", "U+1F0D", "U+1F0E",
    "U+1F0F", "U+1F18", "U+1F19", "U+1F1A", "U+1F1B", "U+1F1C", "U+1F1D",
    "U+1F28", "U+1F29", "U+1F2A", "U+1F2B", "U+1F2C", "U+1F2D", "U+1F2E",
    "U+1F2F", "U+1F38", "U+1F39", "U+1F3A", "U+1F3B", "U+1F3C", "U+1F3D",
    "U+1F3E", "U+1F3F", "U+1F48", "U+1F49", "U+1F4A", "U+1F4B", "U+1F4C",
    "U+1F4D", "U+1F59", "U+1F5B", "U+1F5D", "U+1F5F", "U+1F68", "U+1F69",
    "U+1F6A", "U+1F6B", "U+1F6C", "U+1F6D", "U+1F6E", "U+1F6F", "U+1FB8",
    "U+1FB9", "U+1FBA", "U+1FBB", "U+1FC8", "U+1FC9", "U+1FCA", "U+1FCB",
    "U+1FD8", "U+1FD9", "U+1FDA", "U+1FDB", "U+1FE8", "U+1FE9", "U+1FEA",
    "U+1FEB", "U+1FEC", "U+1FF8", "U+1FF9", "U+1FFA", "U+1FFB", "U+2102",
    "U+2107", "U+210B", "U+210C", "U+210D", "U+2110", "U+2111", "U+2112",
    "U+2115", "U+2119", "U+211A", "U+211B", "U+211C", "U+211D", "U+2124",
    "U+2126", "U+2128", "U+212A", "U+212B", "U+212C", "U+212D", "U+2130",
    "U+2131", "U+2132", "U+2133", "U+213E", "U+213F", "U+2145", "U+2183",
    "U+2C00", "U+2C01", "U+2C02", "U+2C03", "U+2C04", "U+2C05", "U+2C06",
    "U+2C07", "U+2C08", "U+2C09", "U+2C0A", "U+2C0B", "U+2C0C", "U+2C0D",
    "U+2C0E", "U+2C0F", "U+2C10", "U+2C11", "U+2C12", "U+2C13", "U+2C14",
    "U+2C15", "U+2C16", "U+2C17", "U+2C18", "U+2C19", "U+2C1A", "U+2C1B",
    "U+2C1C", "U+2C1D", "U+2C1E", "U+2C1F", "U+2C20", "U+2C21", "U+2C22",
    "U+2C23", "U+2C24", "U+2C25", "U+2C26", "U+2C27", "U+2C28", "U+2C29",
    "U+2C2A", "U+2C2B", "U+2C2C", "U+2C2D", "U+2C2E", "U+2C2F", "U+2C60",
    "U+2C62", "U+2C63", "U+2C64", "U+2C67", "U+2C69", "U+2C6B", "U+2C6D",
    "U+2C6E", "U+2C6F", "U+2C70", "U+2C72", "U+2C75", "U+2C7E", "U+2C7F",
    "U+2C80", "U+2C82", "U+2C84", "U+2C86", "U+2C88", "U+2C8A", "U+2C8C",
    "U+2C8E", "U+2C90", "U+2C92", "U+2C94", "U+2C96", "U+2C98", "U+2C9A",
    "U+2C9C", "U+2C9E", "U+2CA0", "U+2CA2", "U+2CA4", "U+2CA6", "U+2CA8",
    "U+2CAA", "U+2CAC", "U+2CAE", "U+2CB0", "U+2CB2", "U+2CB4", "U+2CB6",
    "U+2CB8", "U+2CBA", "U+2CBC", "U+2CBE", "U+2CC0", "U+2CC2", "U+2CC4",
    "U+2CC6", "U+2CC8", "U+2CCA", "U+2CCC", "U+2CCE", "U+2CD0", "U+2CD2",
    "U+2CD4", "U+2CD6", "U+2CD8", "U+2CDA", "U+2CDC", "U+2CDE", "U+2CE0",
    "U+2CE2", "U+2CEB", "U+2CED", "U+2CF2", "U+A640", "U+A642", "U+A644",
    "U+A646", "U+A648", "U+A64A", "U+A64C", "U+A64E", "U+A650", "U+A652",
    "U+A654", "U+A656", "U+A658", "U+A65A", "U+A65C", "U+A65E", "U+A660",
    "U+A662", "U+A664", "U+A666", "U+A668", "U+A66A", "U+A66C", "U+A680",
    "U+A682", "U+A684", "U+A686", "U+A688", "U+A68A", "U+A68C", "U+A68E",
    "U+A690", "U+A692", "U+A694", "U+A696", "U+A698", "U+A69A", "U+A722",
    "U+A724", "U+A726", "U+A728", "U+A72A", "U+A72C", "U+A72E", "U+A732",
    "U+A734", "U+A736", "U+A738", "U+A73A", "U+A73C", "U+A73E", "U+A740",
    "U+A742", "U+A744", "U+A746", "U+A748", "U+A74A", "U+A74C", "U+A74E",
    "U+A750", "U+A752", "U+A754", "U+A756", "U+A758", "U+A75A", "U+A75C",
    "U+A75E", "U+A760", "U+A762", "U+A764", "U+A766", "U+A768", "U+A76A",
    "U+A76C", "U+A76E", "U+A779", "U+A77B", "U+A77D", "U+A77E", "U+A780",
    "U+A782", "U+A784", "U+A786", "U+A78B", "U+A78D", "U+A790", "U+A792",
    "U+A796", "U+A798", "U+A79A", "U+A79C", "U+A79E", "U+A7A0", "U+A7A2",
    "U+A7A4", "U+A7A6", "U+A7A8", "U+A7AA", "U+A7AB", "U+A7AC", "U+A7AD",
    "U+A7AE", "U+A7B0", "U+A7B1", "U+A7B2", "U+A7B3", "U+A7B4", "U+A7B6",
    "U+A7B8", "U+A7BA", "U+A7BC", "U+A7BE", "U+A7C0", "U+A7C2", "U+A7C4",
    "U+A7C5", "U+A7C6", "U+A7C7", "U+A7C9", "U+A7D0", "U+A7D6", "U+A7D8",
    "U+A7F5", "U+FF21", "U+FF22", "U+FF23", "U+FF24", "U+FF25", "U+FF26",
    "U+FF27", "U+FF28", "U+FF29", "U+FF2A", "U+FF2B", "U+FF2C", "U+FF2D",
    "U+FF2E", "U+FF2F", "U+FF30", "U+FF31", "U+FF32", "U+FF33", "U+FF34",
    "U+FF35", "U+FF36", "U+FF37", "U+FF38", "U+FF39", "U+FF3A", "U+10400",
    "U+10401", "U+10402", "U+10403", "U+10404", "U+10405", "U+10406",
    "U+10407", "U+10408", "U+10409", "U+1040A", "U+1040B", "U+1040C",
    "U+1040D", "U+1040E", "U+1040F", "U+10410", "U+10411", "U+10412",
    "U+10413", "U+10414", "U+10415", "U+10416", "U+10417", "U+10418",
    "U+10419", "U+1041A", "U+1041B", "U+1041C", "U+1041D", "U+1041E",
    "U+1041F", "U+10420", "U+10421", "U+10422", "U+10423", "U+10424",
    "U+10425", "U+10426", "U+10427", "U+104B0", "U+104B1", "U+104B2",
    "U+104B3", "U+104B4", "U+104B5", "U+104B6", "U+104B7", "U+104B8",
    "U+104B9", "U+104BA", "U+104BB", "U+104BC", "U+104BD", "U+104BE",
    "U+104BF", "U+104C0", "U+104C1", "U+104C2", "U+104C3", "U+104C4",
    "U+104C5", "U+104C6", "U+104C7", "U+104C8", "U+104C9", "U+104CA",
    "U+104CB", "U+104CC", "U+104CD", "U+104CE", "U+104CF", "U+104D0",
    "U+104D1", "U+104D2", "U+104D3", "U+10570", "U+10571", "U+10572",
    "U+10573", "U+10574", "U+10575", "U+10576", "U+10577", "U+10578",
    "U+10579", "U+1057A", "U+1057C", "U+1057D", "U+1057E", "U+1057F",
    "U+10580", "U+10581", "U+10582", "U+10583", "U+10584", "U+10585",
    "U+10586", "U+10587", "U+10588", "U+10589", "U+1058A", "U+1058C",
    "U+1058D", "U+1058E", "U+1058F", "U+10590", "U+10591", "U+10592",
    "U+10594", "U+10595", "U+10C80", "U+10C81", "U+10C82", "U+10C83",
    "U+10C84", "U+10C85", "U+10C86", "U+10C87", "U+10C88", "U+10C89",
    "U+10C8A", "U+10C8B", "U+10C8C", "U+10C8D", "U+10C8E", "U+10C8F",
    "U+10C90", "U+10C91", "U+10C92", "U+10C93", "U+10C94", "U+10C95",
    "U+10C96", "U+10C97", "U+10C98", "U+10C99", "U+10C9A", "U+10C9B",
    "U+10C9C", "U+10C9D", "U+10C9E", "U+10C9F", "U+10CA0", "U+10CA1",
    "U+10CA2", "U+10CA3", "U+10CA4", "U+10CA5", "U+10CA6", "U+10CA7",
    "U+10CA8", "U+10CA9", "U+10CAA", "U+10CAB", "U+10CAC", "U+10CAD",
    "U+10CAE", "U+10CAF", "U+10CB0", "U+10CB1", "U+10CB2", "U+118A0",
    "U+118A1", "U+118A2", "U+118A3", "U+118A4", "U+118A5", "U+118A6",
    "U+118A7", "U+118A8", "U+118A9", "U+118AA", "U+118AB", "U+118AC",
    "U+118AD", "U+118AE", "U+118AF", "U+118B0", "U+118B1", "U+118B2",
    "U+118B3", "U+118B4", "U+118B5", "U+118B6", "U+118B7", "U+118B8",
    "U+118B9", "U+118BA", "U+118BB", "U+118BC", "U+118BD", "U+118BE",
    "U+118BF", "U+16E40", "U+16E41", "U+16E42", "U+16E43", "U+16E44",
    "U+16E45", "U+16E46", "U+16E47", "U+16E48", "U+16E49", "U+16E4A",
    "U+16E4B", "U+16E4C", "U+16E4D", "U+16E4E", "U+16E4F", "U+16E50",
    "U+16E51", "U+16E52", "U+16E53", "U+16E54", "U+16E55", "U+16E56",
    "U+16E57", "U+16E58", "U+16E59", "U+16E5A", "U+16E5B", "U+16E5C",
    "U+16E5D", "U+16E5E", "U+16E5F", "U+1D400", "U+1D401", "U+1D402",
    "U+1D403", "U+1D404", "U+1D405", "U+1D406", "U+1D407", "U+1D408",
    "U+1D409", "U+1D40A", "U+1D40B", "U+1D40C", "U+1D40D", "U+1D40E",
    "U+1D40F", "U+1D410", "U+1D411", "U+1D412", "U+1D413", "U+1D414",
    "U+1D415", "U+1D416", "U+1D417", "U+1D418", "U+1D419", "U+1D434",
    "U+1D435", "U+1D436", "U+1D437", "U+1D438", "U+1D439", "U+1D43A",
    "U+1D43B", "U+1D43C", "U+1D43D", "U+1D43E", "U+1D43F", "U+1D440",
    "U+1D441", "U+1D442", "U+1D443", "U+1D444", "U+1D445", "U+1D446",
    "U+1D447", "U+1D448", "U+1D449", "U+1D44A", "U+1D44B", "U+1D44C",
    "U+1D44D", "U+1D468", "U+1D469", "U+1D46A", "U+1D46B", "U+1D46C",
    "U+1D46D", "U+1D46E", "U+1D46F", "U+1D470", "U+1D471", "U+1D472",
    "U+1D473", "U+1D474", "U+1D475", "U+1D476", "U+1D477", "U+1D478",
    "U+1D479", "U+1D47A", "U+1D47B", "U+1D47C", "U+1D47D", "U+1D47E",
    "U+1D47F", "U+1D480", "U+1D481", "U+1D49C", "U+1D49E", "U+1D49F",
    "U+1D4A2", "U+1D4A5", "U+1D4A6", "U+1D4A9", "U+1D4AA", "U+1D4AB",
    "U+1D4AC", "U+1D4AE", "U+1D4AF", "U+1D4B0", "U+1D4B1", "U+1D4B2",
    "U+1D4B3", "U+1D4B4", "U+1D4B5", "U+1D4D0", "U+1D4D1", "U+1D4D2",
    "U+1D4D3", "U+1D4D4", "U+1D4D5", "U+1D4D6", "U+1D4D7", "U+1D4D8",
    "U+1D4D9", "U+1D4DA", "U+1D4DB", "U+1D4DC", "U+1D4DD", "U+1D4DE",
    "U+1D4DF", "U+1D4E0", "U+1D4E1", "U+1D4E2", "U+1D4E3", "U+1D4E4",
    "U+1D4E5", "U+1D4E6", "U+1D4E7", "U+1D4E8", "U+1D4E9", "U+1D504",
    "U+1D505", "U+1D507", "U+1D508", "U+1D509", "U+1D50A", "U+1D50D",
    "U+1D50E", "U+1D50F", "U+1D510", "U+1D511", "U+1D512", "U+1D513",
    "U+1D514", "U+1D516", "U+1D517", "U+1D518", "U+1D519", "U+1D51A",
    "U+1D51B", "U+1D51C", "U+1D538", "U+1D539", "U+1D53B", "U+1D53C",
    "U+1D53D", "U+1D53E", "U+1D540", "U+1D541", "U+1D542", "U+1D543",
    "U+1D544", "U+1D546", "U+1D54A", "U+1D54B", "U+1D54C", "U+1D54D",
    "U+1D54E", "U+1D54F", "U+1D550", "U+1D56C", "U+1D56D", "U+1D56E",
    "U+1D56F", "U+1D570", "U+1D571", "U+1D572", "U+1D573", "U+1D574",
    "U+1D575", "U+1D576", "U+1D577", "U+1D578", "U+1D579", "U+1D57A",
    "U+1D57B", "U+1D57C", "U+1D57D", "U+1D57E", "U+1D57F", "U+1D580",
    "U+1D581", "U+1D582", "U+1D583", "U+1D584", "U+1D585", "U+1D5A0",
    "U+1D5A1", "U+1D5A2", "U+1D5A3", "U+1D5A4", "U+1D5A5", "U+1D5A6",
    "U+1D5A7", "U+1D5A8", "U+1D5A9", "U+1D5AA", "U+1D5AB", "U+1D5AC",
    "U+1D5AD", "U+1D5AE", "U+1D5AF", "U+1D5B0", "U+1D5B1", "U+1D5B2",
    "U+1D5B3", "U+1D5B4", "U+1D5B5", "U+1D5B6", "U+1D5B7", "U+1D5B8",
    "U+1D5B9", "U+1D5D4", "U+1D5D5", "U+1D5D6", "U+1D5D7", "U+1D5D8",
    "U+1D5D9", "U+1D5DA", "U+1D5DB", "U+1D5DC", "U+1D5DD", "U+1D5DE",
    "U+1D5DF", "U+1D5E0", "U+1D5E1", "U+1D5E2", "U+1D5E3", "U+1D5E4",
    "U+1D5E5", "U+1D5E6", "U+1D5E7", "U+1D5E8", "U+1D5E9", "U+1D5EA",
    "U+1D5EB", "U+1D5EC", "U+1D5ED", "U+1D608", "U+1D609", "U+1D60A",
    "U+1D60B", "U+1D60C", "U+1D60D", "U+1D60E", "U+1D60F", "U+1D610",
    "U+1D611", "U+1D612", "U+1D613", "U+1D614", "U+1D615", "U+1D616",
    "U+1D617", "U+1D618", "U+1D619", "U+1D61A", "U+1D61B", "U+1D61C",
    "U+1D61D", "U+1D61E", "U+1D61F", "U+1D620", "U+1D621", "U+1D63C",
    "U+1D63D", "U+1D63E", "U+1D63F", "U+1D640", "U+1D641", "U+1D642",
    "U+1D643", "U+1D644", "U+1D645", "U+1D646", "U+1D647", "U+1D648",
    "U+1D649", "U+1D64A", "U+1D64B", "U+1D64C", "U+1D64D", "U+1D64E",
    "U+1D64F", "U+1D650", "U+1D651", "U+1D652", "U+1D653", "U+1D654",
    "U+1D655", "U+1D670", "U+1D671", "U+1D672", "U+1D673", "U+1D674",
    "U+1D675", "U+1D676", "U+1D677", "U+1D678", "U+1D679", "U+1D67A",
    "U+1D67B", "U+1D67C", "U+1D67D", "U+1D67E", "U+1D67F", "U+1D680",
    "U+1D681", "U+1D682", "U+1D683", "U+1D684", "U+1D685", "U+1D686",
    "U+1D687", "U+1D688", "U+1D689", "U+1D6A8", "U+1D6A9", "U+1D6AA",
    "U+1D6AB", "U+1D6AC", "U+1D6AD", "U+1D6AE", "U+1D6AF", "U+1D6B0",
    "U+1D6B1", "U+1D6B2", "U+1D6B3", "U+1D6B4", "U+1D6B5", "U+1D6B6",
    "U+1D6B7", "U+1D6B8", "U+1D6B9", "U+1D6BA", "U+1D6BB", "U+1D6BC",
    "U+1D6BD", "U+1D6BE", "U+1D6BF", "U+1D6C0", "U+1D6E2", "U+1D6E3",
    "U+1D6E4", "U+1D6E5", "U+1D6E6", "U+1D6E7", "U+1D6E8", "U+1D6E9",
    "U+1D6EA", "U+1D6EB", "U+1D6EC", "U+1D6ED", "U+1D6EE", "U+1D6EF",
    "U+1D6F0", "U+1D6F1", "U+1D6F2", "U+1D6F3", "U+1D6F4", "U+1D6F5",
    "U+1D6F6", "U+1D6F7", "U+1D6F8", "U+1D6F9", "U+1D6FA", "U+1D71C",
    "U+1D71D", "U+1D71E", "U+1D71F", "U+1D720", "U+1D721", "U+1D722",
    "U+1D723", "U+1D724", "U+1D725", "U+1D726", "U+1D727", "U+1D728",
    "U+1D729", "U+1D72A", "U+1D72B", "U+1D72C", "U+1D72D", "U+1D72E",
    "U+1D72F", "U+1D730", "U+1D731", "U+1D732", "U+1D733", "U+1D734",
    "U+1D756", "U+1D757", "U+1D758", "U+1D759", "U+1D75A", "U+1D75B",
    "U+1D75C", "U+1D75D", "U+1D75E", "U+1D75F", "U+1D760", "U+1D761",
    "U+1D762", "U+1D763", "U+1D764", "U+1D765", "U+1D766", "U+1D767",
    "U+1D768", "U+1D769", "U+1D76A", "U+1D76B", "U+1D76C", "U+1D76D",
    "U+1D76E", "U+1D790", "U+1D791", "U+1D792", "U+1D793", "U+1D794",
    "U+1D795", "U+1D796", "U+1D797", "U+1D798", "U+1D799", "U+1D79A",
    "U+1D79B", "U+1D79C", "U+1D79D", "U+1D79E", "U+1D79F", "U+1D7A0",
    "U+1D7A1", "U+1D7A2", "U+1D7A3", "U+1D7A4", "U+1D7A5", "U+1D7A6",
    "U+1D7A7", "U+1D7A8", "U+1D7CA", "U+1E900", "U+1E901", "U+1E902",
    "U+1E903", "U+1E904", "U+1E905", "U+1E906", "U+1E907", "U+1E908",
    "U+1E909", "U+1E90A", "U+1E90B", "U+1E90C", "U+1E90D", "U+1E90E",
    "U+1E90F", "U+1E910", "U+1E911", "U+1E912", "U+1E913", "U+1E914",
    "U+1E915", "U+1E916", "U+1E917", "U+1E918", "U+1E919", "U+1E91A",
    "U+1E91B", "U+1E91C", "U+1E91D", "U+1E91E", "U+1E91F", "U+1E920",
    "U+1E921"}

CaseFrom ==
    <<"A", "B", "C", "D", "E", "F", "G", "H", "I", "J", "K", "L",
    "M", "N", "O", "P", "Q", "R", "S", "T", "U", "V", "W", "X", "Y", "Z",
    "À", "Á", "Â", "Ã", "Ä", "Å", "Æ", "Ç", "È", "É", "Ê", "Ë", "Ì", "Í",
    "Î", "Ï", "Ð", "Ñ", "Ò", "Ó", "Ô", "Õ", "Ö", "Ø", "Ù", "Ú", "Û", "Ü",
    "Ý", "Þ", "U+0100", "U+0102", "U+0104", "U+0106", "U+0108", "U+010A",
    "U+010C", "U+010E", "U+0110", "U+0112", "U+0114", "U+0116", "U+0118",
    "U+011A", "U+011C", "U+011E", "U+0120", "U+0122", "U+0124", "U+0126",
    "U+0128", "U+012A", "U+012C", "U+012E", "U+0130", "U+0132", "U+0134",
    "U+0136", "U+0139", "U+013B", "U+013D", "U+013F", "U+0141", "U+0143",
    "U+0145", "U+0147", "U+014A", "U+014C", "U+014E", "U+0150", "U+0152",
    "U+0154", "U+0156", "U+0158", "U+015A", "U+015C", "U+015E", "U+0160",
    "U+0162", "U+0164", "U+0166", "U+0168", "U+016A", "U+016C", "U+016E",
    "U+0170", "U+0172", "U+0174", "U+0176", "U+0178", "U+0179", "U+017B",
    "U+017D", "U+0181", "U+0182", "U+0184", "U+0186", "U+0187", "U+0189",
    "U+018A", "U+018B", "U+018E", "U+018F", "U+0190", "U+0191", "U+0193",
    "U+0194", "U+0196", "U+0197", "U+0198", "U+019C", "U+019D", "U+019F",
    "U+01A0", "U+01A2", "U+01A4", "U+01A6", "U+01A7", "U+01A9", "U+01AC",
    "U+01AE", "U+01AF", "U+01B1", "U+01B2", "U+01B3", "U+01B5", "U+01B7",
    "U+01B8", "U+01BC", "Ǆ", "ǅ", "Ǉ", "ǈ", "Ǌ", "ǋ", "U+01CD", "U+01CF",
    "U+01D1", "U+01D3", "U+01D5", "U+01D7", "U+01D9", "U+01DB", "U+01DE",
    "U+01E0", "U+01E2", "U+01E4", "U+01E6", "U+01E8", "U+01EA", "U+01EC",
    "U+01EE", "U+01F1", "U+01F2", "U+01F4", "U+01F6", "U+01F7", "U+01F8",
    "U+01FA", "U+01FC", "U+01FE", "U+0200", "U+0202", "U+0204", "U+0206",
    "U+0208", "U+020A", "U+020C", "U+020E", "U+0210", "U+0212", "U+0214",
    "U+0216", "U+0218", "U+021A", "U+021C", "U+021E", "U+0220", "U+0222",
    "U+0224", "U+0226", "U+0228", "U+022A", "U+022C", "U+022E", "U+0230",
    "U+0232", "U+023A", "U+023B", "U+023D", "U+023E", "U+0241", "U+0243",
    "U+0244", "U+0245", "U+0246", "U+0248", "U+024A", "U+024C", "U+024E",
    "U+0370", "U+0372", "U+0376", "U+037F", "Ά", "Έ", "Ή", "Ί", "Ό", "Ύ",
    "Ώ", "Α", "Β", "Γ", "Δ", "Ε", "Ζ", "Η", "Θ", "Ι", "Κ", "Λ", "Μ", "Ν",
    "Ξ", "Ο", "Π", "Ρ", "Σ", "Τ", "Υ", "Φ", "Χ", "Ψ", "Ω", "Ϊ", "Ϋ",
    "U+03CF", "U+03D8", "U+03DA", "U+03DC", "U+03DE", "U+03E0", "U+03E2",
    "U+03E4", "U+03E6", "U+03E8", "U+03EA", "U+03EC", "U+03EE", "U+03F4",
    "U+03F7", "U+03F9", "U+03FA", "U+03FD", "U+03FE", "U+03FF", "U+0400",
    "U+0401", "U+0402", "U+0403", "U+0404", "U+0405", "U+0406", "U+0407",
    "U+0408", "U+0409", "U+040A", "U+040B", "U+040C", "U+040D", "U+040E",
    "U+040F", "U+0410", "U+0411", "U+0412", "U+0413", "U+0414", "U+0415",
    "U+0416", "U+0417", "U+0418", "U+0419", "U+041A", "U+041B", "U+041C",
    "U+041D", "U+041E", "U+041F", "U+0420", "U+0421", "U+0422", "U+0423",
    "U+0424", "U+0425", "U+0426", "U+0427", "U+0428", "U+0429", "U+042A",
    "U+042B", "U+042C", "U+042D", "U+042E", "U+042F", "U+0460", "U+0462",
    "U+0464", "U+0466", "U+0468", "U+046A", "U+046C", "U+046E", "U+0470",
    "U+0472", "U+0474", "U+0476", "U+0478", "U+047A", "U+047C", "U+047E",
    "U+0480", "U+048A", "U+048C", "U+048E", "U+0490", "U+0492", "U+0494",
    "U+0496", "U+0498", "U+049A", "U+049C", "U+049E", "U+04A0", "U+04A2",
    "U+04A4", "U+04A6", "U+04A8", "U+04AA", "U+04AC", "U+04AE", "U+04B0",
    "U+04B2", "U+04B4", "U+04B6", "U+04B8", "U+04BA", "U+04BC", "U+04BE",
    "U+04C0", "U+04C1", "U+04C3", "U+04C5", "U+04C7", "U+04C9", "U+04CB",
    "U+04CD", "U+04D0", "U+04D2", "U+04D4", "U+04D6", "U+04D8", "U+04DA",
    "U+04DC", "U+04DE", "U+04E0", "U+04E2", "U+04E4", "U+04E6", "U+04E8",
    "U+04EA", "U+04EC", "U+04EE", "U+04F0", "U+04F2", "U+04F4", "U+04F6",
    "U+04F8", "U+04FA", "U+04FC", "U+04FE", "U+0500", "U+0502", "U+0504",
    "U+0506", "U+0508", "U+050A", "U+050C", "U+050E", "U+0510", "U+0512",
    "U+0514", "U+0516", "U+0518", "U+051A", "U+051C", "U+051E", "U+0520",
    "U+0522", "U+0524", "U+0526", "U+0528", "U+052A", "U+052C", "U+052E",
    "U+0531", "U+0532", "U+0533", "U+0534", "U+0535", "U+0536", "U+0537",
    "U+0538", "U+0539", "U+053A", "U+053B", "U+053C", "U+053D", "U+053E",
    "U+053F", "U+0540", "U+0541", "U+0542", "U+0543", "U+0544", "U+0545",
    "U+0546", "U+0547", "U+0548", "U+0549", "U+054A", "U+054B", "U+054C",
    "U+054D", "U+054E", "U+054F", "U+0550", "U+0551", "U+0552", "U+0553",
    "U+0554", "U+0555", "U+0556", "U+10A0", "U+10A1", "U+10A2", "U+10A3",
    "U+10A4", "U+10A5", "U+10A6", "U+10A7", "U+10A8", "U+10A9", "U+10AA",
    "U+10AB", "U+10AC", "U+10AD", "U+10AE", "U+10AF", "U+10B0", "U+10B1",
    "U+10B2", "U+10B3", "U+10B4", "U+10B5", "U+10B6", "U+10B7", "U+10B8",
    "U+10B9", "U+10BA", "U+10BB", "U+10BC", "U+10BD", "U+10BE", "U+10BF",
    "U+10C0", "U+10C1", "U+10C2", "U+10C3", "U+10C4", "U+10C5", "U+10C7",
    "U+10CD", "U+13A0", "U+13A1", "U+13A2", "U+13A3", "U+13A4", "U+13A5",
    "U+13A6", "U+13A7", "U+13A8", "U+13A9", "U+13AA", "U+13AB", "U+13AC",
    "U+13AD", "U+13AE", "U+13AF", "U+13B0", "U+13B1", "U+13B2", "U+13B3",
    "U+13B4", "U+13B5", "U+13B6", "U+13B7", "U+13B8", "U+13B9", "U+13BA",
    "U+13BB", "U+13BC", "U+13BD", "U+13BE", "U+13BF", "U+13C0", "U+13C1",
    "U+13C2", "U+13C3", "U+13C4", "U+13C5", "U+13C6", "U+13C7", "U+13C8",
    "U+13C9", "U+13CA", "U+13CB", "U+13CC", "U+13CD", "U+13CE", "U+13CF",
    "U+13D0", "U+13D1", "U+13D2", "U+13D3", "U+13D4", "U+13D5", "U+13D6",
    "U+13D7", "U+13D8", "U+13D9", "U+13DA", "U+13DB", "U+13DC", "U+13DD",
    "U+13DE", "U+13DF", "U+13E0", "U+13E1", "U+13E2", "U+13E3", "U+13E4",
    "U+13E5", "U+13E6", "U+13E7", "U+13E8", "U+13E9", "U+13EA", "U+13EB",
    "U+13EC", "U+13ED", "U+13EE", "U+13EF", "U+13F0", "U+13F1", "U+13F2",
    "U+13F3", "U+13F4", "U+13F5", "U+1C90", "U+1C91", "U+1C92", "U+1C93",
    "U+1C94", "U+1C95", "U+1C96", "U+1C97", "U+1C98", "U+1C99", "U+1C9A",
    "U+1C9B", "U+1C9C", "U+1C9D", "U+1C9E", "U+1C9F", "U+1CA0", "U+1CA1",
    "U+1CA2", "U+1CA3", "U+1CA4", "U+1CA5", "U+1CA6", "U+1CA7", "U+1CA8",
    "U+1CA9", "U+1CAA", "U+1CAB", "U+1CAC", "U+1CAD", "U+1CAE", "U+1CAF",
    "U+1CB0", "U+1CB1", "U+1CB2", "U+1CB3", "U+1CB4", "U+1CB5", "U+1CB6",
    "U+1CB7", "U+1CB8", "U+1CB9", "U+1CBA", "U+1CBD", "U+1CBE", "U+1CBF",
    "U+1E00", "U+1E02", "U+1E04", "U+1E06", "U+1E08", "U+1E0A", "U+1E0C",
    "U+1E0E", "U+1E10", "U+1E12", "U+1E14", "U+1E16", "U+1E18", "U+1E1A",
    "U+1E1C", "U+1E1E", "U+1E20", "U+1E22", "U+1E24", "U+1E26", "U+1E28",
    "U+1E2A", "U+1E2C", "U+1E2E", "U+1E30", "U+1E32", "U+1E34", "U+1E36",
    "U+1E38", "U+1E3A", "U+1E3C", "U+1E3E", "U+1E40", "U+1E42", "U+1E44",
    "U+1E46", "U+1E48", "U+1E4A", "U+1E4C", "U+1E4E", "U+1E50", "U+1E52",
    "U+1E54", "U+1E56", "U+1E58", "U+1E5A", "U+1E5C", "U+1E5E", "U+1E60",
    "U+1E62", "U+1E64", "U+1E66", "U+1E68", "U+1E6A", "U+1E6C", "U+1E6E",
    "U+1E70", "U+1E72", "U+1E74", "U+1E76", "U+1E78", "U+1E7A", "U+1E7C",
    "U+1E7E", "U+1E80", "U+1E82", "U+1E84", "U+1E86", "U+1E88", "U+1E8A",
    "U+1E8C", "U+1E8E", "U+1E90", "U+1E92", "U+1E94", "U+1E9E", "U+1EA0",
    "U+1EA2", "U+1EA4", "U+1EA6", "U+1EA8", "U+1EAA", "U+1EAC", "U+1EAE",
    "U+1EB0", "U+1EB2", "U+1EB4", "U+1EB6", "U+1EB8", "U+1EBA", "U+1EBC",
    "U+1EBE", "U+1EC0", "U+1EC2", "U+1EC4", "U+1EC6", "U+1EC8", "U+1ECA",
    "U+1ECC", "U+1ECE", "U+1ED0", "U+1ED2", "U+1ED4", "U+1ED6", "U+1ED8",
    "U+1EDA", "U+1EDC", "U+1EDE", "U+1EE0", "U+1EE2", "U+1EE4", "U+1EE6",
    "U+1EE8", "U+1EEA", "U+1EEC", "U+1EEE", "U+1EF0", "U+1EF2", "U+1EF4",
    "U+1EF6", "U+1EF8", "U+1EFA", "U+1EFC", "U+1EFE", "U+1F08", "U+1F09",
    "U+1F0A", "U+1F0B", "U+1F0C", "U+1F0D", "U+1F0E", "U+1F0F", "U+1F18",
    "U+1F19", "U+1F1A", "U+1F1B", "U+1F1C", "U+1F1D", "U+1F28", "U+1F29",
    "U+1F2A", "U+1F2B", "U+1F2C", "U+1F2D", "U+1F2E", "U+1F2F", "U+1F38",
    "U+1F39", "U+1F3A", "U+1F3B", "U+1F3C", "U+1F3D", "U+1F3E", "U+1F3F",
    "U+1F48", "U+1F49", "U+1F4A", "U+1F4B", "U+1F4C", "U+1F4D", "U+1F59",
    "U+1F5B", "U+1F5D", "U+1F5F", "U+1F68", "U+1F69", "U+1F6A", "U+1F6B",
    "U+1F6C", "U+1F6D", "U+1F6E", "U+1F6F", "U+1F88", "U+1F89", "U+1F8A",
    "U+1F8B", "U+1F8C", "U+1F8D", "U+1F8E", "U+1F8F", "U+1F98", "U+1F99",
    "U+1F9A", "U+1F9B", "U+1F9C", "U+1F9D", "U+1F9E", "U+1F9F", "U+1FA8",
    "U+1FA9", "U+1FAA", "U+1FAB", "U+1FAC", "U+1FAD", "U+1FAE", "U+1FAF",
    "U+1FB8", "U+1FB9", "U+1FBA", "U+1FBB", "U+1FBC", "U+1FC8", "U+1FC9",
    "U+1FCA", "U+1FCB", "U+1FCC", "U+1FD8", "U+1FD9", "U+1FDA", "U+1FDB",
    "U+1FE8", "U+1FE9", "U+1FEA", "U+1FEB", "U+1FEC", "U+1FF8", "U+1FF9",
    "U+1FFA", "U+1FFB", "U+1FFC", "U+2126", "U+212A", "U+212B", "U+2132",
    "U+2160", "U+2161", "U+2162", "U+2163", "U+2164", "U+2165", "U+2166",
    "U+2167", "U+2168", "U+2169", "U+216A", "U+216B", "U+216C", "U+216D",
    "U+216E", "U+216F", "U+2183", "U+24B6", "U+24B7", "U+24B8", "U+24B9",
    "U+24BA", "U+24BB", "U+24BC", "U+24BD", "U+24BE", "U+24BF", "U+24C0",
    "U+24C1", "U+24C2", "U+24C3", "U+24C4", "U+24C5", "U+24C6", "U+24C7",
    "U+24C8", "U+24C9", "U+24CA", "U+24CB", "U+24CC", "U+24CD", "U+24CE",
    "U+24CF", "U+2C00", "U+2C01", "U+2C02", "U+2C03", "U+2C04", "U+2C05",
    "U+2C06", "U+2C07", "U+2C08", "U+2C09", "U+2C0A", "U+2C0B", "U+2C0C",
    "U+2C0D", "U+2C0E", "U+2C0F", "U+2C10", "U+2C11", "U+2C12", "U+2C13",
    "U+2C14", "U+2C15", "U+2C16", "U+2C17", "U+2C18", "U+2C19", "U+2C1A",
    "U+2C1B", "U+2C1C", "U+2C1D", "U+2C1E", "U+2C1F", "U+2C20", "U+2C21",
    "U+2C22", "U+2C23", "U+2C24", "U+2C25", "U+2C26", "U+2C27", "U+2C28",
    "U+2C29", "U+2C2A", "U+2C2B", "U+2C2C", "U+2C2D", "U+2C2E", "U+2C2F",
    "U+2C60", "U+2C62", "U+2C63", "U+2C64", "U+2C67", "U+2C69", "U+2C6B",
    "U+2C6D", "U+2C6E", "U+2C6F", "U+2C70", "U+2C72", "U+2C75", "U+2C7E",
    "U+2C7F", "U+2C80", "U+2C82", "U+2C84", "U+2C86", "U+2C88", "U+2C8A",
    "U+2C8C", "U+2C8E", "U+2C90", "U+2C92", "U+2C94", "U+2C96", "U+2C98",
    "U+2C9A", "U+2C9C", "U+2C9E", "U+2CA0", "U+2CA2", "U+2CA4", "U+2CA6",
    "U+2CA8", "U+2CAA", "U+2CAC", "U+2CAE", "U+2CB0", "U+2CB2", "U+2CB4",
    "U+2CB6", "U+2CB8", "U+2CBA", "U+2CBC", "U+2CBE", "U+2CC0", "U+2CC2",
    "U+2CC4", "U+2CC6", "U+2CC8", "U+2CCA", "U+2CCC", "U+2CCE", "U+2CD0",
    "U+2CD2", "U+2CD4", "U+2CD6", "U+2CD8", "U+2CDA", "U+2CDC", "U+2CDE",
    "U+2CE0", "U+2CE2", "U+2CEB", "U+2CED", "U+2CF2", "U+A640", "U+A642",
    "U+A644", "U+A646", "U+A648", "U+A64A", "U+A64C", "U+A64E", "U+A650",
    "U+A652", "U+A654", "U+A656", "U+A658", "U+A65A", "U+A65C", "U+A65E",
    "U+A660", "U+A662", "U+A664", "U+A666", "U+A668", "U+A66A", "U+A66C",
    "U+A680", "U+A682", "U+A684", "U+A686", "U+A688", "U+A68A", "U+A68C",
    "U+A68E", "U+A690", "U+A692", "U+A694", "U+A696", "U+A698", "U+A69A",
    "U+A722", "U+A724", "U+A726", "U+A728", "U+A72A", "U+A72C", "U+A72E",
    "U+A732", "U+A734", "U+A736", "U+A738", "U+A73A", "U+A73C", "U+A73E",
    "U+A740", "U+A742", "U+A744", "U+A746", "U+A748", "U+A74A", "U+A74C",
    "U+A74E", "U+A750", "U+A752", "U+A754", "U+A756", "U+A758", "U+A75A",
    "U+A75C", "U+A75E", "U+A760", "U+A762", "U+A764", "U+A766", "U+A768",
    "U+A76A", "U+A76C", "U+A76E", "U+A779", "U+A77B", "U+A77D", "U+A77E",
    "U+A780", "U+A782", "U+A784", "U+A786", "U+A78B", "U+A78D", "U+A790",
    "U+A792", "U+A796", "U+A798", "U+A79A", "U+A79C", "U+A79E", "U+A7A0",
    "U+A7A2", "U+A7A4", "U+A7A6", "U+A7A8", "U+A7AA", "U+A7AB", "U+A7AC",
    "U+A7AD", "U+A7AE", "U+A7B0", "U+A7B1", "U+A7B2", "U+A7B3", "U+A7B4",
    "U+A7B6", "U+A7B8", "U+A7BA", "U+A7BC", "U+A7BE", "U+A7C0", "U+A7C2",
    "U+A7C4", "U+A7C5", "U+A7C6", "U+A7C7", "U+A7C9", "U+A7D0", "U+A7D6",
    "U+A7D8", "U+A7F5", "U+FF21", "U+FF22", "U+FF23", "U+FF24", "U+FF25",
    "U+FF26", "U+FF27", "U+FF28", "U+FF29", "U+FF2A", "U+FF2B", "U+FF2C",
    "U+FF2D", "U+FF2E", "U+FF2F", "U+FF30", "U+FF31", "U+FF32", "U+FF33",
    "U+FF34", "U+FF35", "U+FF36", "U+FF37", "U+FF38", "U+FF39", "U+FF3A",
    "U+10400", "U+10401", "U+10402", "U+10403", "U+10404", "U+10405",
    "U+10406", "U+10407", "U+10408", "U+10409", "U+1040A", "U+1040B",
    "U+1040C", "U+1040D", "U+1040E", "U+1040F", "U+10410", "U+10411",
    "U+10412", "U+10413", "U+10414", "U+10415", "U+10416", "U+10417",
    "U+10418", "U+10419", "U+1041A", "U+1041B", "U+1041C", "U+1041D",
    "U+1041E", "U+1041F", "U+10420", "U+10421", "U+10422", "U+10423",
    "U+10424", "U+10425", "U+10426", "U+10427", "U+104B0", "U+104B1",
    "U+104B2", "U+104B3", "U+104B4", "U+104B5", "U+104B6", "U+104B7",
    "U+104B8", "U+104B9", "U+104BA", "U+104BB", "U+104BC", "U+104BD",
    "U+104BE", "U+104BF", "U+104C0", "U+104C1", "U+104C2", "U+104C3",
    "U+104C4", "U+104C5", "U+104C6", "U+104C7", "U+104C8", "U+104C9",
    "U+104CA", "U+104CB", "U+104CC", "U+104CD", "U+104CE", "U+104CF",
    "U+104D0", "U+104D1", "U+104D2", "U+104D3", "U+10570", "U+10571",
    "U+10572", "U+10573", "U+10574", "U+10575", "U+10576", "U+10577",
    "U+10578", "U+10579", "U+1057A", "U+1057C", "U+1057D", "U+1057E",
    "U+1057F", "U+10580", "U+10581", "U+10582", "U+10583", "U+10584",
    "U+10585", "U+10586", "U+10587", "U+10588", "U+10589", "U+1058A",
    "U+1058C", "U+1058D", "U+1058E", "U+1058F", "U+10590", "U+10591",
    "U+10592", "U+10594", "U+10595", "U+10C80", "U+10C81", "U+10C82",
    "U+10C83", "U+10C84", "U+10C85", "U+10C86", "U+10C87", "U+10C88",
    "U+10C89", "U+10C8A", "U+10C8B", "U+10C8C", "U+10C8D", "U+10C8E",
    "U+10C8F", "U+10C90", "U+10C91", "U+10C92", "U+10C93", "U+10C94",
    "U+10C95", "U+10C96", "U+10C97", "U+10C98", "U+10C99", "U+10C9A",
    "U+10C9B", "U+10C9C", "U+10C9D", "U+10C9E", "U+10C9F", "U+10CA0",
    "U+10CA1", "U+10CA2", "U+10CA3", "U+10CA4", "U+10CA5", "U+10CA6",
    "U+10CA7", "U+10CA8", "U+10CA9", "U+10CAA", "U+10CAB", "U+10CAC",
    "U+10CAD", "U+10CAE", "U+10CAF", "U+10CB0", "U+10CB1", "U+10CB2",
    "U+118A0", "U+118A1", "U+118A2", "U+118A3", "U+118A4", "U+118A5",
    "U+118A6", "U+118A7", "U+118A8", "U+118A9", "U+118AA", "U+118AB",
    "U+118AC", "U+118AD", "U+118AE", "U+118AF", "U+118B0", "U+118B1",
    "U+118B2", "U+118B3", "U+118B4", "U+118B5", "U+118B6", "U+118B7",
    "U+118B8", "U+118B9", "U+118BA", "U+118BB", "U+118BC", "U+118BD",
    "U+118BE", "U+118BF", "U+16E40", "U+16E41", "U+16E42", "U+16E43",
    "U+16E44", "U+16E45", "U+16E46", "U+16E47", "U+16E48", "U+16E49",
    "U+16E4A", "U+16E4B", "U+16E4C", "U+16E4D", "U+16E4E", "U+16E4F",
    "U+16E50", "U+16E51", "U+16E52", "U+16E53", "U+16E54", "U+16E55",
    "U+16E56", "U+16E57", "U+16E58", "U+16E59", "U+16E5A", "U+16E5B",
    "U+16E5C", "U+16E5D", "U+16E5E", "U+16E5F", "U+1E900", "U+1E901",
    "U+1E902", "U+1E903", "U+1E904", "U+1E905", "U+1E906", "U+1E907",
    "U+1E908", "U+1E909", "U+1E90A", "U+1E90B", "U+1E90C", "U+1E90D",
    "U+1E90E", "U+1E90F", "U+1E910", "U+1E911", "U+1E912", "U+1E913",
    "U+1E914", "U+1E915", "U+1E916", "U+1E917", "U+1E918", "U+1E919",
    "U+1E91A", "U+1E91B", "U+1E91C", "U+1E91D", "U+1E91E", "U+1E91F",
    "U+1E920", "U+1E921">>

CaseTo ==
    <<"a", "b", "c", "d", "e", "f", "g", "h", "i", "j", "k", "l",
    "m", "n", "o", "p", "q", "r", "s", "t", "u", "v", "w", "x", "y", "z",
    "à", "á", "â", "ã", "ä", "å", "æ", "ç", "è", "é", "ê", "ë", "ì", "í",
    "î", "ï", "ð", "ñ", "ò", "ó", "ô", "õ", "ö", "ø", "ù", "ú", "û", "ü",
    "ý", "þ", "U+0101", "U+0103", "U+0105", "U+0107", "U+0109", "U+010B",
    "U+010D", "U+010F", "U+0111", "U+0113", "U+0115", "U+0117", "U+0119",
    "U+011B", "U+011D", "U+011F", "U+0121", "U+0123", "U+0125", "U+0127",
    "U+0129", "U+012B", "U+012D", "U+012F", "i", "U+0133", "U+0135",
    "U+0137", "U+013A", "U+013C", "U+013E", "U+0140", "U+0142", "U+0144",
    "U+0146", "U+0148", "U+014B", "U+014D", "U+014F", "U+0151", "U+0153",
    "U+0155", "U+0157", "U+0159", "U+015B", "U+015D", "U+015F", "U+0161",
    "U+0163", "U+0165", "U+0167", "U+0169", "U+016B", "U+016D", "U+016F",
    "U+0171", "U+0173", "U+0175", "U+0177", "ÿ", "U+017A", "U+017C",
    "U+017E", "U+0253", "U+0183", "U+0185", "U+0254", "U+0188", "U+0256",
    "U+0257", "U+018C", "U+01DD", "U+0259", "U+025B", "U+0192", "U+0260",
    "U+0263", "U+0269", "U+0268", "U+0199", "U+026F", "U+0272", "U+0275",
    "U+01A1", "U+01A3", "U+01A5", "U+0280", "U+01A8", "U+0283", "U+01AD",
    "U+0288", "U+01B0", "U+028A", "U+028B", "U+01B4", "U+01B6", "U+0292",
    "U+01B9", "U+01BD", "ǆ", "ǆ", "ǉ", "ǉ", "ǌ", "ǌ", "U+01CE", "U+01D0",
    "U+01D2", "U+01D4", "U+01D6", "U+01D8", "U+01DA", "U+01DC", "U+01DF",
    "U+01E1", "U+01E3", "U+01E5", "U+01E7", "U+01E9", "U+01EB", "U+01ED",
    "U+01EF", "U+01F3", "U+01F3", "U+01F5", "U+0195", "U+01BF", "U+01F9",
    "U+01FB", "U+01FD", "U+01FF", "U+0201", "U+0203", "U+0205", "U+0207",
    "U+0209", "U+020B", "U+020D", "U+020F", "U+0211", "U+0213", "U+0215",
    "U+0217", "U+0219", "U+021B", "U+021D", "U+021F", "U+019E", "U+0223",
    "U+0225", "U+0227", "U+0229", "U+022B", "U+022D", "U+022F", "U+0231",
    "U+0233", "U+2C65", "U+023C", "U+019A", "U+2C66", "U+0242", "U+0180",
    "U+0289", "U+028C", "U+0247", "U+0249", "U+024B", "U+024D", "U+024F",
    "U+0371", "U+0373", "U+0377", "U+03F3", "ά", "έ", "ή", "ί", "ό", "ύ",
    "ώ", "α", "β", "γ", "δ", "ε", "ζ", "η", "θ", "ι", "κ", "λ", "μ", "ν",
    "ξ", "ο", "π", "ρ", "σ", "τ", "υ", "φ", "χ", "ψ", "ω", "ϊ", "ϋ",
    "U+03D7", "U+03D9", "U+03DB", "U+03DD", "U+03DF", "U+03E1", "U+03E3",
    "U+03E5", "U+03E7", "U+03E9", "U+03EB", "U+03ED", "U+03EF", "θ",
    "U+03F8", "U+03F2", "U+03FB", "U+037B", "U+037C", "U+037D", "U+0450",
    "U+0451", "U+0452", "U+0453", "U+0454", "U+0455", "U+0456", "U+0457",
    "U+0458", "U+0459", "U+045A", "U+045B", "U+045C", "U+045D", "U+045E",
    "U+045F", "U+0430", "U+0431", "U+0432", "U+0433", "U+0434", "U+0435",
    "U+0436", "U+0437", "U+0438", "U+0439", "U+043A", "U+043B", "U+043C",
    "U+043D", "U+043E", "U+043F", "U+0440", "U+0441", "U+0442", "U+0443",
    "U+0444", "U+0445", "U+0446", "U+0447", "U+0448", "U+0449", "U+044A",
    "U+044B", "U+044C", "U+044D", "U+044E", "U+044F", "U+0461", "U+0463",
    "U+0465", "U+0467", "U+0469", "U+046B", "U+046D", "U+046F", "U+0471",
    "U+0473", "U+0475", "U+0477", "U+0479", "U+047B", "U+047D", "U+047F",
    "U+0481", "U+048B", "U+048D", "U+048F", "U+0491", "U+0493", "U+0495",
    "U+0497", "U+0499", "U+049B", "U+049D", "U+049F", "U+04A1", "U+04A3",
    "U+04A5", "U+04A7", "U+04A9", "U+04AB", "U+04AD", "U+04AF", "U+04B1",
    "U+04B3", "U+04B5", "U+04B7", "U+04B9", "U+04BB", "U+04BD", "U+04BF",
    "U+04CF", "U+04C2", "U+04C4", "U+04C6", "U+04C8", "U+04CA", "U+04CC",
    "U+04CE", "U+04D1", "U+04D3", "U+04D5", "U+04D7", "U+04D9", "U+04DB",
    "U+04DD", "U+04DF", "U+04E1", "U+04E3", "U+04E5", "U+04E7", "U+04E9",
    "U+04EB", "U+04ED", "U+04EF", "U+04F1", "U+04F3", "U+04F5", "U+04F7",
    "U+04F9", "U+04FB", "U+04FD", "U+04FF", "U+0501", "U+0503", "U+0505",
    "U+0507", "U+0509", "U+050B", "U+050D", "U+050F", "U+0511", "U+0513",
    "U+0515", "U+0517", "U+0519", "U+051B", "U+051D", "U+051F", "U+0521",
    "U+0523", "U+0525", "U+0527", "U+0529", "U+052B", "U+052D", "U+052F",
    "U+0561", "U+0562", "U+0563", "U+0564", "U+0565", "U+0566", "U+0567",
    "U+0568", "U+0569", "U+056A", "U+056B", "U+056C", "U+056D", "U+056E",
    "U+056F", "U+0570", "U+0571", "U+0572", "U+0573", "U+0574", "U+0575",
    "U+0576", "U+0577", "U+0578", "U+0579", "U+057A", "U+057B", "U+057C",
    "U+057D", "U+057E", "U+057F", "U+0580", "U+0581", "U+0582", "U+0583",
    "U+0584", "U+0585", "U+0586", "U+2D00", "U+2D01", "U+2D02", "U+2D03",
    "U+2D04", "U+2D05", "U+2D06", "U+2D07", "U+2D08", "U+2D09", "U+2D0A",
    "U+2D0B", "U+2D0C", "U+2D0D", "U+2D0E", "U+2D0F", "U+2D10", "U+2D11",
    "U+2D12", "U+2D13", "U+2D14", "U+2D15", "U+2D16", "U+2D17", "U+2D18",
    "U+2D19", "U+2D1A", "U+2D1B", "U+2D1C", "U+2D1D", "U+2D1E", "U+2D1F",
    "U+2D20", "U+2D21", "U+2D22", "U+2D23", "U+2D24", "U+2D25", "U+2D27",
    "U+2D2D", "U+AB70", "U+AB71", "U+AB72", "U+AB73", "U+AB74", "U+AB75",
    "U+AB76", "U+AB77", "U+AB78", "U+AB79", "U+AB7A", "U+AB7B", "U+AB7C",
    "U+AB7D", "U+AB7E", "U+AB7F", "U+AB80", "U+AB81", "U+AB82", "U+AB83",
    "U+AB84", "U+AB85", "U+AB86", "U+AB87", "U+AB88", "U+AB89", "U+AB8A",
    "U+AB8B", "U+AB8C", "U+AB8D", "U+AB8E", "U+AB8F", "U+AB90", "U+AB91",
    "U+AB92", "U+AB93", "U+AB94", "U+AB95", "U+AB96", "U+AB97", "U+AB98",
    "U+AB99", "U+AB9A", "U+AB9B", "U+AB9C", "U+AB9D", "U+AB9E", "U+AB9F",
    "U+ABA0", "U+ABA1", "U+ABA2", "U+ABA3", "U+ABA4", "U+ABA5", "U+ABA6",
    "U+ABA7", "U+ABA8", "U+ABA9", "U+ABAA", "U+ABAB", "U+ABAC", "U+ABAD",
    "U+ABAE", "U+ABAF", "U+ABB0", "U+ABB1", "U+ABB2", "U+ABB3", "U+ABB4",
    "U+ABB5", "U+ABB6", "U+ABB7", "U+ABB8", "U+ABB9", "U+ABBA", "U+ABBB",
    "U+ABBC", "U+ABBD", "U+ABBE", "U+ABBF", "U+13F8", "U+13F9", "U+13FA",
    "U+13FB", "U+13FC", "U+13FD", "U+10D0", "U+10D1", "U+10D2", "U+10D3",
    "U+10D4", "U+10D5", "U+10D6", "U+10D7", "U+10D8", "U+10D9", "U+10DA",
    "U+10DB", "U+10DC", "U+10DD", "U+10DE", "U+10DF", "U+10E0", "U+10E1",
    "U+10E2", "U+10E3", "U+10E4", "U+10E5", "U+10E6", "U+10E7", "U+10E8",
    "U+10E9", "U+10EA", "U+10EB", "U+10EC", "U+10ED", "U+10EE", "U+10EF",
    "U+10F0", "U+10F1", "U+10F2", "U+10F3", "U+10F4", "U+10F5", "U+10F6",
    "U+10F7", "U+10F8", "U+10F9", "U+10FA", "U+10FD", "U+10FE", "U+10FF",
    "U+1E01", "U+1E03", "U+1E05", "U+1E07", "U+1E09", "U+1E0B", "U+1E0D",
    "U+1E0F", "U+1E11", "U+1E13", "U+1E15", "U+1E17", "U+1E19", "U+1E1B",
    "U+1E1D", "U+1E1F", "U+1E21", "U+1E23", "U+1E25", "U+1E27", "U+1E29",
    "U+1E2B", "U+1E2D", "U+1E2F", "U+1E31", "U+1E33", "U+1E35", "U+1E37",
    "U+1E39", "U+1E3B", "U+1E3D", "U+1E3F", "U+1E41", "U+1E43", "U+1E45",
    "U+1E47", "U+1E49", "U+1E4B", "U+1E4D", "U+1E4F", "U+1E51", "U+1E53",
    "U+1E55", "U+1E57", "U+1E59", "U+1E5B", "U+1E5D", "U+1E5F", "U+1E61",
    "U+1E63", "U+1E65", "U+1E67", "U+1E69", "U+1E6B", "U+1E6D", "U+1E6F",
    "U+1E71", "U+1E73", "U+1E75", "U+1E77", "U+1E79", "U+1E7B", "U+1E7D",
    "U+1E7F", "U+1E81", "U+1E83", "U+1E85", "U+1E87", "U+1E89", "U+1E8B",
    "U+1E8D", "U+1E8F", "U+1E91", "U+1E93", "U+1E95", "ß", "U+1EA1",
    "U+1EA3", "U+1EA5", "U+1EA7", "U+1EA9", "U+1EAB", "U+1EAD", "U+1EAF",
    "U+1EB1", "U+1EB3", "U+1EB5", "U+1EB7", "U+1EB9", "U+1EBB", "U+1EBD",
    "U+1EBF", "U+1EC1", "U+1EC3", "U+1EC5", "U+1EC7", "U+1EC9", "U+1ECB",
    "U+1ECD", "U+1ECF", "U+1ED1", "U+1ED3", "U+1ED5", "U+1ED7", "U+1ED9",
    "U+1EDB", "U+1EDD", "U+1EDF", "U+1EE1", "U+1EE3", "U+1EE5", "U+1EE7",
    "U+1EE9", "U+1EEB", "U+1EED", "U+1EEF", "U+1EF1", "U+1EF3", "U+1EF5",
    "U+1EF7", "U+1EF9", "U+1EFB", "U+1EFD", "U+1EFF", "U+1F00", "U+1F01",
    "U+1F02", "U+1F03", "U+1F04", "U+1F05", "U+1F06", "U+1F07", "U+1F10",
    "U+1F11", "U+1F12", "U+1F13", "U+1F14", "U+1F15", "U+1F20", "U+1F21",
    "U+1F22", "U+1F23", "U+1F24", "U+1F25", "U+1F26", "U+1F27", "U+1F30",
    "U+1F31", "U+1F32", "U+1F33", "U+1F34", "U+1F35", "U+1F36", "U+1F37",
    "U+1F40", "U+1F41", "U+1F42", "U+1F43", "U+1F44", "U+1F45", "U+1F51",
    "U+1F53", "U+1F55", "U+1F57", "U+1F60", "U+1F61", "U+1F62", "U+1F63",
    "U+1F64", "U+1F65", "U+1F66", "U+1F67", "U+1F80", "U+1F81", "U+1F82",
    "U+1F83", "U+1F84", "U+1F85", "U+1F86", "U+1F87", "U+1F90", "U+1F91",
    "U+1F92", "U+1F93", "U+1F94", "U+1F95", "U+1F96", "U+1F97", "U+1FA0",
    "U+1FA1", "U+1FA2", "U+1FA3", "U+1FA4", "U+1FA5", "U+1FA6", "U+1FA7",
    "U+1FB0", "U+1FB1", "U+1F70", "U+1F71", "U+1FB3", "U+1F72", "U+1F73",
    "U+1F74", "U+1F75", "U+1FC3", "U+1FD0", "U+1FD1", "U+1F76", "U+1F77",
    "U+1FE0", "U+1FE1", "U+1F7A", "U+1F7B", "U+1FE5", "U+1F78", "U+1F79",
    "U+1F7C", "U+1F7D", "U+1FF3", "ω", "k", "å", "U+214E", "U+2170",
    "U+2171", "U+2172", "U+2173", "U+2174", "U+2175", "U+2176", "U+2177",
    "U+2178", "U+2179", "U+217A", "U+217B", "U+217C", "U+217D", "U+217E",
    "U+217F", "U+2184", "U+24D0", "U+24D1", "U+24D2", "U+24D3", "U+24D4",
    "U+24D5", "U+24D6", "U+24D7", "U+24D8", "U+24D9", "U+24DA", "U+24DB",
    "U+24DC", "U+24DD", "U+24DE", "U+24DF", "U+24E0", "U+24E1", "U+24E2",
    "U+24E3", "U+24E4", "U+24E5", "U+24E6", "U+24E7", "U+24E8", "U+24E9",
    "U+2C30", "U+2C31", "U+2C32", "U+2C33", "U+2C34", "U+2C35", "U+2C36",
    "U+2C37", "U+2C38", "U+2C39", "U+2C3A", "U+2C3B", "U+2C3C", "U+2C3D",
    "U+2C3E", "U+2C3F", "U+2C40", "U+2C41", "U+2C42", "U+2C43", "U+2C44",
    "U+2C45", "U+2C46", "U+2C47", "U+2C48", "U+2C49", "U+2C4A", "U+2C4B",
    "U+2C4C", "U+2C4D", "U+2C4E", "U+2C4F", "U+2C50", "U+2C51", "U+2C52",
    "U+2C53", "U+2C54", "U+2C55", "U+2C56", "U+2C57", "U+2C58", "U+2C59",
    "U+2C5A", "U+2C5B", "U+2C5C", "U+2C5D", "U+2C5E", "U+2C5F", "U+2C61",
    "U+026B", "U+1D7D", "U+027D", "U+2C68", "U+2C6A", "U+2C6C", "U+0251",
    "U+0271", "U+0250", "U+0252", "U+2C73", "U+2C76", "U+023F", "U+0240",
    "U+2C81", "U+2C83", "U+2C85", "U+2C87", "U+2C89", "U+2C8B", "U+2C8D",
    "U+2C8F", "U+2C91", "U+2C93", "U+2C95", "U+2C97", "U+2C99", "U+2C9B",
    "U+2C9D", "U+2C9F", "U+2CA1", "U+2CA3", "U+2CA5", "U+2CA7", "U+2CA9",
    "U+2CAB", "U+2CAD", "U+2CAF", "U+2CB1", "U+2CB3", "U+2CB5", "U+2CB7",
    "U+2CB9", "U+2CBB", "U+2CBD", "U+2CBF", "U+2CC1", "U+2CC3", "U+2CC5",
    "U+2CC7", "U+2CC9", "U+2CCB", "U+2CCD", "U+2CCF", "U+2CD1", "U+2CD3",
    "U+2CD5", "U+2CD7", "U+2CD9", "U+2CDB", "U+2CDD", "U+2CDF", "U+2CE1",
    "U+2CE3", "U+2CEC", "U+2CEE", "U+2CF3", "U+A641", "U+A643", "U+A645",
    "U+A647", "U+A649", "U+A64B", "U+A64D", "U+A64F", "U+A651", "U+A653",
    "U+A655", "U+A657", "U+A659", "U+A65B", "U+A65D", "U+A65F", "U+A661",
    "U+A663", "U+A665", "U+A667", "U+A669", "U+A66B", "U+A66D", "U+A681",
    "U+A683", "U+A685", "U+A687", "U+A689", "U+A68B", "U+A68D", "U+A68F",
    "U+A691", "U+A693", "U+A695", "U+A697", "U+A699", "U+A69B", "U+A723",
    "U+A725", "U+A727", "U+A729", "U+A72B", "U+A72D", "U+A72F", "U+A733",
    "U+A735", "U+A737", "U+A739", "U+A73B", "U+A73D", "U+A73F", "U+A741",
    "U+A743", "U+A745", "U+A747", "U+A749", "U+A74B", "U+A74D", "U+A74F",
    "U+A751", "U+A753", "U+A755", "U+A757", "U+A759", "U+A75B", "U+A75D",
    "U+A75F", "U+A761", "U+A763", "U+A765", "U+A767", "U+A769", "U+A76B",
    "U+A76D", "U+A76F", "U+A77A", "U+A77C", "U+1D79", "U+A77F", "U+A781",
    "U+A783", "U+A785", "U+A787", "U+A78C", "U+0265", "U+A791", "U+A793",
    "U+A797", "U+A799", "U+A79B", "U+A79D", "U+A79F", "U+A7A1", "U+A7A3",
    "U+A7A5", "U+A7A7", "U+A7A9", "U+0266", "U+025C", "U+0261", "U+026C",
    "U+026A", "U+029E", "U+0287", "U+029D", "U+AB53", "U+A7B5", "U+A7B7",
    "U+A7B9", "U+A7BB", "U+A7BD", "U+A7BF", "U+A7C1", "U+A7C3", "U+A794",
    "U+0282", "U+1D8E", "U+A7C8", "U+A7CA", "U+A7D1", "U+A7D7", "U+A7D9",
    "U+A7F6", "U+FF41", "U+FF42", "U+FF43", "U+FF44", "U+FF45", "U+FF46",
    "U+FF47", "U+FF48", "U+FF49", "U+FF4A", "U+FF4B", "U+FF4C", "U+FF4D",
    "U+FF4E", "U+FF4F", "U+FF50", "U+FF51", "U+FF52", "U+FF53", "U+FF54",
    "U+FF55", "U+FF56", "U+FF57", "U+FF58", "U+FF59", "U+FF5A", "U+10428",
    "U+10429", "U+1042A", "U+1042B", "U+1042C", "U+1042D", "U+1042E",
    "U+1042F", "U+10430", "U+10431", "U+10432", "U+10433", "U+10434",
    "U+10435", "U+10436", "U+10437", "U+10438", "U+10439", "U+1043A",
    "U+1043B", "U+1043C", "U+1043D", "U+1043E", "U+1043F", "U+10440",
    "U+10441", "U+10442", "U+10443", "U+10444", "U+10445", "U+10446",
    "U+10447", "U+10448", "U+10449", "U+1044A", "U+1044B", "U+1044C",
    "U+1044D", "U+1044E", "U+1044F", "U+104D8", "U+104D9", "U+104DA",
    "U+104DB", "U+104DC", "U+104DD", "U+104DE", "U+104DF", "U+104E0",
    "U+104E1", "U+104E2", "U+104E3", "U+104E4", "U+104E5", "U+104E6",
    "U+104E7", "U+104E8", "U+104E9", "U+104EA", "U+104EB", "U+104EC",
    "U+104ED", "U+104EE", "U+104EF", "U+104F0", "U+104F1", "U+104F2",
    "U+104F3", "U+104F4", "U+104F5", "U+104F6", "U+104F7", "U+104F8",
    "U+104F9", "U+104FA", "U+104FB", "U+10597", "U+10598", "U+10599",
    "U+1059A", "U+1059B", "U+1059C", "U+1059D", "U+1059E", "U+1059F",
    "U+105A0", "U+105A1", "U+105A3", "U+105A4", "U+105A5", "U+105A6",
    "U+105A7", "U+105A8", "U+105A9", "U+105AA", "U+105AB", "U+105AC",
    "U+105AD", "U+105AE", "U+105AF", "U+105B0", "U+105B1", "U+105B3",
    "U+105B4", "U+105B5", "U+105B6", "U+105B7", "U+105B8", "U+105B9",
    "U+105BB", "U+105BC", "U+10CC0", "U+10CC1", "U+10CC2", "U+10CC3",
    "U+10CC4", "U+10CC5", "U+10CC6", "U+10CC7", "U+10CC8", "U+10CC9",
    "U+10CCA", "U+10CCB", "U+10CCC", "U+10CCD", "U+10CCE", "U+10CCF",
    "U+10CD0", "U+10CD1", "U+10CD2", "U+10CD3", "U+10CD4", "U+10CD5",
    "U+10CD6", "U+10CD7", "U+10CD8", "U+10CD9", "U+10CDA", "U+10CDB",
    "U+10CDC", "U+10CDD", "U+10CDE", "U+10CDF", "U+10CE0", "U+10CE1",
    "U+10CE2", "U+10CE3", "U+10CE4", "U+10CE5", "U+10CE6", "U+10CE7",
    "U+10CE8", "U+10CE9", "U+10CEA", "U+10CEB", "U+10CEC", "U+10CED",
    "U+10CEE", "U+10CEF", "U+10CF0", "U+10CF1", "U+10CF2", "U+118C0",
    "U+118C1", "U+118C2", "U+118C3", "U+118C4", "U+118C5", "U+118C6",
    "U+118C7", "U+118C8", "U+118C9", "U+118CA", "U+118CB", "U+118CC",
    "U+118CD", "U+118CE", "U+118CF", "U+118D0", "U+118D1", "U+118D2",
    "U+118D3", "U+118D4", "U+118D5", "U+118D6", "U+118D7", "U+118D8",
    "U+118D9", "U+118DA", "U+118DB", "U+118DC", "U+118DD", "U+118DE",
    "U+118DF", "U+16E60", "U+16E61", "U+16E62", "U+16E63", "U+16E64",
    "U+16E65", "U+16E66", "U+16E67", "U+16E68", "U+16E69", "U+16E6A",
    "U+16E6B", "U+16E6C", "U+16E6D", "U+16E6E", "U+16E6F", "U+16E70",
    "U+16E71", "U+16E72", "U+16E73", "U+16E74", "U+16E75", "U+16E76",
    "U+16E77", "U+16E78", "U+16E79", "U+16E7A", "U+16E7B", "U+16E7C",
    "U+16E7D", "U+16E7E", "U+16E7F", "U+1E922", "U+1E923", "U+1E924",
    "U+1E925", "U+1E926", "U+1E927", "U+1E928", "U+1E929", "U+1E92A",
    "U+1E92B", "U+1E92C", "U+1E92D", "U+1E92E", "U+1E92F", "U+1E930",
    "U+1E931", "U+1E932", "U+1E933", "U+1E934", "U+1E935", "U+1E936",
    "U+1E937", "U+1E938", "U+1E939", "U+1E93A", "U+1E93B", "U+1E93C",
    "U+1E93D", "U+1E93E", "U+1E93F", "U+1E940", "U+1E941", "U+1E942",
    "U+1E943">>

Bytes ==
    <<"0x80", "0x81", "0x82", "0x83", "0x84", "0x85", "0x86",
    "0x87", "0x88", "0x89", "0x8A", "0x8B", "0x8C", "0x8D", "0x8E", "0x8F",
    "0x90", "0x91", "0x92", "0x93", "0x94", "0x95", "0x96", "0x97", "0x98",
    "0x99", "0x9A", "0x9B", "0x9C", "0x9D", "0x9E", "0x9F", "0xA0", "0xA1",
    "0xA2", "0xA3", "0xA4", "0xA5", "0xA6", "0xA7", "0xA8", "0xA9", "0xAA",
    "0xAB", "0xAC", "0xAD", "0xAE", "0xAF", "0xB0", "0xB1", "0xB2", "0xB3",
    "0xB4", "0xB5", "0xB6", "0xB7", "0xB8", "0xB9", "0xBA", "0xBB", "0xBC",
    "0xBD", "0xBE", "0xBF", "0xC0", "0xC1", "0xC2", "0xC3", "0xC4", "0xC5",
    "0xC6", "0xC7", "0xC8", "0xC9", "0xCA", "0xCB", "0xCC", "0xCD", "0xCE",
    "0xCF", "0xD0", "0xD1", "0xD2", "0xD3", "0xD4", "0xD5", "0xD6", "0xD7",
    "0xD8", "0xD9", "0xDA", "0xDB", "0xDC", "0xDD", "0xDE", "0xDF", "0xE0",
    "0xE1", "0xE2", "0xE3", "0xE4", "0xE5", "0xE6", "0xE7", "0xE8", "0xE9",
    "0xEA", "0xEB", "0xEC", "0xED", "0xEE", "0xEF", "0xF0", "0xF1", "0xF2",
    "0xF3", "0xF4", "0xF5", "0xF6", "0xF7", "0xF8", "0xF9", "0xFA", "0xFB",
    "0xFC", "0xFD", "0xFE", "0xFF">>

Holds(q, c) == \E i \in DOMAIN q : q[i] = c
IndexIn(q, c) == CHOOSE i \in DOMAIN q : q[i] = c

IsByte(c) == Holds(Bytes, c)
ByteVal(c) == 127 + IndexIn(Bytes, c)
CodePoint(c) == CodePoints[IndexIn(Runes, c)]

HexChars == <<"0", "1", "2", "3", "4", "5", "6", "7", "8", "9", "a", "b", "c", "d", "e", "f">>

\* The w hexadecimal digits of n, in lower case.
RECURSIVE Hex(_, _)
Hex(n, w) == IF w = 0 THEN <<>> ELSE Append(Hex(n \div 16, w - 1), HexChars[(n % 16) + 1])

\* utf8.RuneError, and utf8.DecodeRuneInString of a string that starts with
\* c: a byte that is part of no rune decodes to RuneError (of width 1, as
\* the encoded U+FFFD does of width 3), so the rest of the string is its
\* tail in either case.
RuneError == "U+FFFD"
DecodeRuneInString(s) == IF IsByte(Head(s)) THEN RuneError ELSE Head(s)

\* s[0] of a string that starts with c: the byte itself, the ASCII rune, or
\* the first byte of the rune's encoding.
FirstByte(c) ==
    IF IsByte(c) THEN c
    ELSE IF CodePoint(c) < 128 THEN c
    ELSE IF CodePoint(c) < 2048 THEN Bytes[192 + (CodePoint(c) \div 64) - 127]
    ELSE IF CodePoint(c) < 65536 THEN Bytes[224 + (CodePoint(c) \div 4096) - 127]
    ELSE Bytes[240 + (CodePoint(c) \div 262144) - 127]

\* unicode.IsUpper and unicode.ToLower; a rune that is not listed is no
\* upper case letter and has no lower case of its own.
IsUpper(c) == c \in UpperLetters

ToLower(c) == IF Holds(CaseFrom, c) THEN CaseTo[IndexIn(CaseFrom, c)] ELSE c

ToLowerStr(s) == [i \in DOMAIN s |-> ToLower(s[i])]

(***************************************************************************)
(* camelCaseToUnderScore.  The state of its loops is the buffer written so  *)
(* far, the rune r0 last decoded and the rest of the string; panic tells    *)
(* that str[0] was read of an empty string (index out of range).  A byte    *)
(* written by buf.WriteByte stands in the buffer as the ASCII rune it is or *)
(* as a byte that is part of no rune: the strings given to the function     *)
(* hold no byte that continues a rune (their lone bytes are 0xC0, 0xC1 and  *)
(* 0xF5 to 0xFF), so what is written after a first byte never completes it. *)
(***************************************************************************)
\* The inner loop (find next non-upper-case character): entered with r0 the
\* second upper-case rune of a run.  Returns the loop's state at its exit.
RECURSIVE camelAbbrev(_, _, _)
camelAbbrev(buf, r0, s) ==
    IF Len(s) = 0 THEN [buf |-> buf, r0 |-> r0, str |-> s, panic |-> FALSE]
    ELSE LET r1 == r0
             n0 == DecodeRuneInString(s)
             rest == Tail(s)
         IN IF n0 = RuneError
            THEN IF Len(rest) = 0
                 THEN [buf |-> Append(buf, ToLower(r1)), r0 |-> n0, str |-> rest,
                       panic |-> TRUE]
                 ELSE [buf |-> buf \o <<ToLower(r1), FirstByte(Head(rest))>>, r0 |-> n0,
                       str |-> rest, panic |-> FALSE]
            ELSE IF ~IsUpper(n0)
            THEN IF n0 \in {"_", " ", "-"}
                 THEN [buf |-> Append(buf, ToLower(r1)), r0 |-> "_", str |-> rest,
                       panic |-> FALSE]
                 ELSE [buf |-> buf \o <<"_", ToLower(r1), n0>>, r0 |-> n0, str |-> rest,
                       panic |-> FALSE]
            ELSE camelAbbrev(Append(buf, ToLower(r1)), n0, rest)

\* After the inner loop: `if len(str) == 0 || r0 == '_'` writes r0 lowered.
camelAfterAbbrev(st) ==
    IF ~st.panic /\ (Len(st.str) = 0 \/ st.r0 = "_")
    THEN [st EXCEPT !.buf = Append(st.buf, ToLower(st.r0))]
    ELSE st

\* case unicode.IsUpper(r0): `if prev != '_'` an underscore is written.
camelBoundary(prev) == prev # "_"

\* The main loop, entered with r0 the rune last decoded: the buffer at its
\* end, or at the panic.
RECURSIVE camelLoop(_, _, _)
camelLoop(buf, r0, s) ==
    IF Len(s) = 0 THEN [buf |-> buf, panic |-> FALSE]
    ELSE LET prev == r0
             c == DecodeRuneInString(s)
             s1 == Tail(s)
         IN IF c = RuneError
            THEN IF Len(s1) = 0 THEN [buf |-> buf, panic |-> TRUE]
                 ELSE camelLoop(Append(buf, FirstByte(Head(s1))), c, s1)
            ELSE IF IsUpper(c)
            THEN LET b1 == IF camelBoundary(prev) THEN Append(buf, "_") ELSE buf
                     b2 == Append(b1, ToLower(c))
                 IN IF Len(s1) = 0 THEN camelLoop(b2, c, s1)
                    ELSE LET d == DecodeRuneInString(s1)
                             s2 == Tail(s1)
                         IN IF ~IsUpper(d)
                            THEN camelLoop(Append(b2, d), d, s2)
                            ELSE LET st == camelAfterAbbrev(camelAbbrev(b2, d, s2))
                                 IN IF st.panic THEN [buf |-> st.buf, panic |-> TRUE]
                                    ELSE camelLoop(st.buf, st.r0, st.str)
            ELSE LET e == IF c \in {" ", "-"} THEN "_" ELSE c
                 IN camelLoop(Append(buf, e), e, s1)

\* camelCaseToUnderScore(str): the string returned (buf), or the panic.
camelCaseToUnderScore(s) ==
    IF Len(s) = 0 THEN [buf |-> <<>>, panic |-> FALSE] ELSE camelLoop(<<>>, "_", s)

(***************************************************************************)
(* Numbers.  A number is [neg, mag, frac]: a sign, the decimal digits of    *)
(* the integer part without leading zeros (<<0>> for zero) and the digits   *)
(* after the point without trailing zeros (<<>> for an integer).            *)
(***************************************************************************)
DigitChars == <<"0", "1", "2", "3", "4", "5", "6", "7", "8", "9">>
IsDigit(c) == \E i \in DOMAIN DigitChars : DigitChars[i] = c
DigitVal(c) == (CHOOSE i \in DOMAIN DigitChars : DigitChars[i] = c) - 1

Pos(m) == [neg |-> FALSE, mag |-> m, frac |-> <<>>]
Neg(m) == [neg |-> TRUE, mag |-> m, frac |-> <<>>]
Frac(n, f) == [n EXCEPT !.frac = f]
Zero == Pos(<<0>>)

StripZeros(m) ==
    IF Len(m) <= 1 THEN m
    ELSE IF \A i \in 1..Len(m) : m[i] = 0 THEN <<0>>
    ELSE SubSeq(m, CHOOSE k \in 1..Len(m) : m[k] # 0 /\ \A i \in 1..(k - 1) : m[i] = 0, Len(m))

RECURSIVE NatDigits(_)
NatDigits(n) == IF n < 10 THEN <<n>> ELSE Append(NatDigits(n \div 10), n % 10)

\* Lexicographic order of digit sequences, a proper prefix being smaller.
LexLess(x, y) ==
    \E k \in 1..Len(y) :
        /\ k > Len(x) \/ x[k] < y[k]
        /\ \A i \in 1..(k - 1) : i <= Len(x) /\ x[i] = y[i]

MagLess(x, y) == Len(x) < Len(y) \/ (Len(x) = Len(y) /\ LexLess(x, y))
AbsLess(a, b) == MagLess(a.mag, b.mag) \/ (a.mag = b.mag /\ LexLess(a.frac, b.frac))
IsZero(a) == a.mag = <<0>> /\ a.frac = <<>>

\* The infinities and NaN of a float: decimals without digits.
Inf(neg) == [neg |-> neg, mag |-> <<>>, frac |-> <<>>]
NaN == [neg |-> FALSE, mag |-> <<>>, frac |-> <<0>>]
IsInf(n) == n.mag = <<>> /\ n.frac = <<>>
IsNaN(n) == n.mag = <<>> /\ n.frac # <<>>

\* a < b; no comparison with NaN holds.
Less(a, b) ==
    IF IsNaN(a) \/ IsNaN(b) \/ a = b THEN FALSE
    ELSE IF IsInf(a) THEN a.neg
    ELSE IF IsInf(b) THEN ~b.neg
    ELSE IF a.neg /\ ~b.neg THEN ~(IsZero(a) /\ IsZero(b))
    ELSE IF ~a.neg /\ b.neg THEN FALSE
    ELSE IF a.neg THEN AbsLess(b, a)
    ELSE AbsLess(a, b)

\* Conversion of a float to an integer type, in range: truncation toward zero.
Trunc(a) == IF a.mag = <<0>> THEN Zero ELSE [a EXCEPT !.frac = <<>>]

MinInt8 == Neg(<<1,2,8>>)
MaxInt8 == Pos(<<1,2,7>>)
MinInt16 == Neg(<<3,2,7,6,8>>)
MaxInt16 == Pos(<<3,2,7,6,7>>)
MinInt32 == Neg(<<2,1,4,7,4,8,3,6,4,8>>)
MaxInt32 == Pos(<<2,1,4,7,4,8,3,6,4,7>>)
MinInt64 == Neg(<<9,2,2,3,3,7,2,0,3,6,8,5,4,7,7,5,8,0,8>>)
MaxInt64 == Pos(<<9,2,2,3,3,7,2,0,3,6,8,5,4,7,7,5,8,0,7>>)
MaxUint8 == Pos(<<2,5,5>>)
MaxUint16 == Pos(<<6,5,5,3,5>>)
MaxUint32 == Pos(<<4,2,9,4,9,6,7,2,9,5>>)
MaxUint64 == Pos(<<1,8,4,4,6,7,4,4,0,7,3,7,0,9,5,5,1,6,1,5>>)
Two63 == Pos(<<9,2,2,3,3,7,2,0,3,6,8,5,4,7,7,5,8,0,8>>)
Two64 == Pos(<<1,8,4,4,6,7,4,4,0,7,3,7,0,9,5,5,1,6,1,6>>)

Archs == {"386", "amd64", "arm64"}
IntSize(a) == IF a = "386" THEN 32 ELSE 64

\* strconv.ParseUint(s, 10, bitSize): digits only, no sign, value below 2^bitSize
\* (bitSize 0 is the width of uint).
ParseUint(s, bitSize, a) ==
    LET bits == IF bitSize = 0 THEN IntSize(a) ELSE bitSize
        max == CASE bits = 8 -> MaxUint8 [] bits = 16 -> MaxUint16
                 [] bits = 32 -> MaxUint32 [] OTHER -> MaxUint64
        n == Pos(StripZeros([i \in DOMAIN s |-> DigitVal(s[i])]))
    IN IF Len(s) = 0 \/ \E i \in DOMAIN s : ~IsDigit(s[i])
       THEN [ok |-> FALSE, n |-> Zero]
       ELSE IF Less(max, n) THEN [ok |-> FALSE, n |-> max]
       ELSE [ok |-> TRUE, n |-> n]

\* strconv.ParseInt(s, 10, bitSize): an optional sign, then digits; the value
\* within the signed range of bitSize bits.
ParseInt(s, bitSize, a) ==
    LET bits == IF bitSize = 0 THEN IntSize(a) ELSE bitSize
        min == CASE bits = 8 -> MinInt8 [] bits = 16 -> MinInt16
                 [] bits = 32 -> MinInt32 [] OTHER -> MinInt64
        max == CASE bits = 8 -> MaxInt8 [] bits = 16 -> MaxInt16
                 [] bits = 32 -> MaxInt32 [] OTHER -> MaxInt64
        signed == Len(s) > 0 /\ Head(s) \in {"+", "-"}
        ds == IF signed THEN Tail(s) ELSE s
        m == StripZeros([i \in DOMAIN ds |-> DigitVal(ds[i])])
        n == IF signed /\ Head(s) = "-" /\ m # <<0>> THEN Neg(m) ELSE Pos(m)
    IN IF Len(ds) = 0 \/ \E i \in DOMAIN ds : ~IsDigit(ds[i])
       THEN [ok |-> FALSE, n |-> Zero]
       ELSE IF Less(n, min) THEN [ok |-> FALSE, n |-> min]
       ELSE IF Less(max, n) THEN [ok |-> FALSE, n |-> max]
       ELSE [ok |-> TRUE, n |-> n]

(***************************************************************************)
(* Go values.  A value is [kind, val]: the nil interface (JSON null, and    *)
(* the "absent" result of a lookup), bool, int64, uint64, float64,          *)
(* json.Number, string, []interface{} and map[string]interface{}.           *)
(***************************************************************************)
NilV == [kind |-> "nil", val |-> <<>>]
BoolV(b) == [kind |-> "bool", val |-> b]
IntV(n) == [kind |-> "int", val |-> n]
UintV(n) == [kind |-> "uint", val |-> n]
FloatV(n) == [kind |-> "float", val |-> n]
NumberV(s) == [kind |-> "json.Number", val |-> s]
StrV(s) == [kind |-> "string", val |-> s]
SliceV(s) == [kind |-> "slice", val |-> s]
MapV(m) == [kind |-> "map", val |-> m]

\* The zero reflect.Value (reflect.ValueOf(nil), a failed lookup).
Invalid == [kind |-> "invalid", val |-> <<>>]
\* A runtime panic raised by the call.
Panic == [kind |-> "panic", val |-> <<>>]

\* The value of a variable the specification at hand does not use.
Idle == [kind |-> "idle", val |-> <<>>]

\* reflect.ValueOf(v)
ValueOf(v) == IF v = NilV THEN Invalid ELSE v
\* Value.Interface()
Interface(v) == v

(***************************************************************************)
(* Path lookup: Result.Get, Result.GetField, Result.get, getValueField.     *)
(***************************************************************************)
\* A mutant of Split: the string is cut at the first separator only.
SplitFirst(s, sep) ==
    IF \A i \in DOMAIN s : s[i] # sep THEN <<s>>
    ELSE LET i == CHOOSE j \in DOMAIN s : s[j] = sep /\ \A k \in 1..(j - 1) : s[k] # sep
         IN <<SubSeq(s, 1, i - 1), SubSeq(s, i + 1, Len(s))>>

\* strings.Split(s, sep) for a one-character separator.
RECURSIVE Split(_, _)
Split(s, sep) ==
    IF \A i \in DOMAIN s : s[i] # sep THEN <<s>>
    ELSE LET i == CHOOSE j \in DOMAIN s : s[j] = sep /\ \A k \in 1..(j - 1) : s[k] # sep
         IN <<SubSeq(s, 1, i - 1)>> \o Split(SubSeq(s, i + 1, Len(s)), sep)

\* strings.Join(segs, sep): the dotted string a caller writes for segments.
RECURSIVE Join(_, _)
Join(segs, sep) ==
    IF Len(segs) = 0 THEN <<>>
    ELSE IF Len(segs) = 1 THEN segs[1]
    ELSE segs[1] \o <<sep>> \o Join(Tail(segs), sep)

\* A mutant of sliceIndex: the index is taken one-based.
sliceIndexOneBased(value, field, a) ==
    LET p == ParseUint(field, 0, a)
        hit == {j \in 1..Len(value.val) : NatDigits(j) = p.n.mag}
    IN IF ~p.ok \/ hit = {} THEN [ok |-> FALSE, v |-> Invalid]
       ELSE [ok |-> TRUE, v |-> ValueOf(Interface(value.val[CHOOSE j \in hit : TRUE]))]

\* getValueField, case reflect.Array, reflect.Slice: the element the segment
\* selects, if it parses as an index below the length.
sliceIndex(value, field, a) ==
    LET p == ParseUint(field, 0, a)
    IN IF ~p.ok THEN [ok |-> FALSE, v |-> Invalid]
       ELSE IF ~Less(p.n, Pos(NatDigits(Len(value.val)))) THEN [ok |-> FALSE, v |-> Invalid]
       ELSE LET i == CHOOSE j \in 0..(Len(value.val) - 1) : NatDigits(j) = p.n.mag
            IN [ok |-> TRUE, v |-> ValueOf(Interface(value.val[i + 1]))]

\* getValueField, case reflect.Map: the value under the key equal to the segment.
mapIndex(value, field) ==
    IF field \notin DOMAIN value.val THEN [ok |-> FALSE, v |-> Invalid]
    ELSE [ok |-> TRUE, v |-> ValueOf(Interface(value.val[field]))]

RECURSIVE getValueField(_, _, _)
getValueField(value, fs, a) ==
    IF value = Invalid THEN Panic       \* value.Type() on the zero Value
    ELSE LET field == fs[1]
             next == CASE value.kind = "slice" -> sliceIndex(value, field, a)
                       [] value.kind = "map" -> mapIndex(value, field)
                       [] OTHER -> [ok |-> FALSE, v |-> Invalid]
         IN IF ~next.ok THEN Invalid
            ELSE IF Len(fs) = 1 THEN next.v
            ELSE getValueField(next.v, Tail(fs), a)

get(r, fs, a) ==
    IF fs[1] \notin DOMAIN r.val \/ r.val[fs[1]] = NilV THEN NilV
    ELSE IF Len(fs) = 1 THEN r.val[fs[1]]
    ELSE LET value == getValueField(ValueOf(r.val[fs[1]]), Tail(fs), a)
         IN IF value = Panic THEN Panic
            ELSE IF value = Invalid THEN NilV
            ELSE Interface(value)

Get(r, field, a) == IF field = <<>> THEN r ELSE get(r, Split(field, "."), a)

GetField(r, fs, a) == IF Len(fs) = 0 THEN r ELSE get(r, fs, a)

(***************************************************************************)
(* Errors.  fmt.Errorf(format, args...) is [fmt, v]: the format string and  *)
(* its arguments as text; the nil error has the format "nil".               *)
(***************************************************************************)
Errorf(format, args) == [fmt |-> format, v |-> args]
NoErr == Errorf("nil", <<>>)

RECURSIVE Itoa(_)
Itoa(n) == IF n < 10 THEN <<DigitChars[n + 1]>>
           ELSE Append(Itoa(n \div 10), DigitChars[(n % 10) + 1])

(***************************************************************************)
(* Types (reflect.Type) and the values of decode targets.                   *)
(***************************************************************************)
TypeOf(k) == [kind |-> k]
SignedKinds == {"Int8", "Int16", "Int32", "Int64", "Int"}
UnsignedKinds == {"Uint8", "Uint16", "Uint32", "Uint64", "Uint"}
IntKinds == SignedKinds \cup UnsignedKinds
FloatKinds == {"Float32", "Float64"}

\* The bits of an integer kind on the build's architecture.
Bits(k, a) ==
    CASE k \in {"Int8", "Uint8"} -> 8
      [] k \in {"Int16", "Uint16"} -> 16
      [] k \in {"Int32", "Uint32"} -> 32
      [] k \in {"Int64", "Uint64"} -> 64
      [] OTHER -> IntSize(a)

\* The bounds the code compares against for each integer kind.
MinOf(k, a) ==
    IF k \in UnsignedKinds THEN Zero
    ELSE CASE Bits(k, a) = 8 -> MinInt8 [] Bits(k, a) = 16 -> MinInt16
           [] Bits(k, a) = 32 -> MinInt32 [] OTHER -> MinInt64

MaxOf(k, a) ==
    IF k \in UnsignedKinds
    THEN CASE Bits(k, a) = 8 -> MaxUint8 [] Bits(k, a) = 16 -> MaxUint16
           [] Bits(k, a) = 32 -> MaxUint32 [] OTHER -> MaxUint64
    ELSE CASE Bits(k, a) = 8 -> MaxInt8 [] Bits(k, a) = 16 -> MaxInt16
           [] Bits(k, a) = 32 -> MaxInt32 [] OTHER -> MaxInt64

\* The name the error messages give the kind ("int8", ..., "int", "uint").
KindName(k) ==
    CASE k = "Int8" -> <<"i","n","t","8">> [] k = "Int16" -> <<"i","n","t","1","6">>
      [] k = "Int32" -> <<"i","n","t","3","2">> [] k = "Int64" -> <<"i","n","t","6","4">>
      [] k = "Int" -> <<"i","n","t">>
      [] k = "Uint8" -> <<"u","i","n","t","8">> [] k = "Uint16" -> <<"u","i","n","t","1","6">>
      [] k = "Uint32" -> <<"u","i","n","t","3","2">> [] k = "Uint64" -> <<"u","i","n","t","6","4">>
      [] OTHER -> <<"u","i","n","t">>

(***************************************************************************)
(* Arithmetic on numbers of any length.  A natural number is kept in       *)
(* bytes, the most significant first, and a binary floating-point number   *)
(* as [m, e], the value m * 2^e.  Bits are counted from 0, the least       *)
(* significant.                                                            *)
(***************************************************************************)
Front(s) == SubSeq(s, 1, Len(s) - 1)
Last(s) == s[Len(s)]
ZeroBytes(n) == IF n <= 0 THEN <<>> ELSE SubSeq([i \in 1..n |-> 0], 1, n)
IsZeroBytes(x) == \A k \in 1..Len(x) : x[k] = 0

\* Long sequences are worked on by halves, so that no operator is nested
\* deeper than the logarithm of the length.  A pass over digits with a carry
\* gives [s, c]: the digits it made and the carry it ends with; the carry of
\* one half is worked out before the other half is begun.
LeftHalf(d) == SubSeq(d, 1, Len(d) \div 2)
RightHalf(d) == SubSeq(d, Len(d) \div 2 + 1, Len(d))
CarryLeft(l, r) == [s |-> l.s \o r.s, c |-> l.c]
CarryRight(l, r) == [s |-> l.s \o r.s, c |-> r.c]

\* The quotient and the remainder of a decimal by a small number m, digit by
\* digit with the carry c from the left.
RECURSIVE DivCarry(_, _, _)
DivCarryRight(d, m, l) ==
    IF l.c < 0 THEN l ELSE CarryRight(l, DivCarry(RightHalf(d), m, l.c))
DivCarry(d, m, c) ==
    IF Len(d) = 0 THEN [s |-> <<>>, c |-> c]
    ELSE IF Len(d) = 1 THEN [s |-> <<(10 * c + d[1]) \div m>>, c |-> (10 * c + d[1]) % m]
    ELSE DivCarryRight(d, m, DivCarry(LeftHalf(d), m, c))

DivSmall(d, m, c) == DivCarry(d, m, c).s
ModSmall(d, m, c) == DivCarry(d, m, c).c

\* m * d + c for digits d of the base b and small numbers m and c, with the
\* carry from the right.
RECURSIVE MulCarry(_, _, _, _)
MulCarryLeft(d, m, r, b) ==
    IF r.c < 0 THEN r ELSE CarryLeft(MulCarry(LeftHalf(d), m, r.c, b), r)
MulCarry(d, m, c, b) ==
    IF Len(d) = 0 THEN [s |-> <<>>, c |-> c]
    ELSE IF Len(d) = 1 THEN [s |-> <<(m * d[1] + c) % b>>, c |-> (m * d[1] + c) \div b]
    ELSE MulCarryLeft(d, m, MulCarry(RightHalf(d), m, c, b), b)

\* m * d + c for a decimal d and small numbers m and c.
Carried(r) == NatDigits(r.c) \o r.s
MulSmall(d, m, c) == Carried(MulCarry(d, m, c, 10))

\* The bytes without the zero bytes in front.
StripBytes(x) ==
    IF IsZeroBytes(x) THEN <<>>
    ELSE SubSeq(x, CHOOSE k \in 1..Len(x) : x[k] # 0 /\ \A i \in 1..(k - 1) : x[i] = 0, Len(x))

\* The bytes of the decimal d, as many as it needs, and the decimal of bytes:
\* digit after digit, x becomes 10 * x + the digit, and byte after byte, d
\* becomes 256 * d + the byte.
RECURSIVE BytesFrom(_, _)
BytesFrom(x, d) ==
    IF Len(d) = 0 \/ Len(x) < 0 THEN x
    ELSE IF Len(d) = 1 THEN MulCarry(x, 10, d[1], 256).s
    ELSE BytesFrom(BytesFrom(x, LeftHalf(d)), RightHalf(d))

ToBytes(d) == StripBytes(BytesFrom(ZeroBytes((5 * Len(d)) \div 12 + 1), d))

RECURSIVE DigitsFrom(_, _)
DigitsFrom(d, x) ==
    IF Len(x) = 0 \/ Len(d) < 0 THEN d
    ELSE IF Len(x) = 1 THEN StripZeros(MulSmall(d, 256, x[1]))
    ELSE DigitsFrom(DigitsFrom(d, LeftHalf(x)), RightHalf(x))

FromBytes(x) == DigitsFrom(<<0>>, x)

\* The low n bytes of x, with zero bytes in front where x is shorter.
Widen(x, n) ==
    IF Len(x) >= n THEN SubSeq(x, Len(x) - n + 1, Len(x)) ELSE ZeroBytes(n - Len(x)) \o x

\* a + b + c for bytes of one length and a carry c, the carry out dropped.
RECURSIVE AddCarry(_, _, _)
AddCarryLeft(a, b, r) ==
    IF r.c < 0 THEN r ELSE CarryLeft(AddCarry(LeftHalf(a), LeftHalf(b), r.c), r)
AddCarry(a, b, c) ==
    IF Len(a) = 0 THEN [s |-> <<>>, c |-> c]
    ELSE IF Len(a) = 1 THEN [s |-> <<(a[1] + b[1] + c) % 256>>, c |-> (a[1] + b[1] + c) \div 256]
    ELSE AddCarryLeft(a, b, AddCarry(RightHalf(a), RightHalf(b), c))

AddB(a, b, c) == AddCarry(a, b, c).s

Invert(a) == SubSeq([i \in 1..Len(a) |-> 255 - a[i]], 1, Len(a))
NegB(a) == AddB(Invert(a), ZeroBytes(Len(a)), 1)
SubB(a, b) == AddB(a, Invert(b), 1)
IncB(a) == AddB(a, ZeroBytes(Len(a)), 1)

\* a < b for unsigned numbers of one length.
LessB(a, b) ==
    \E k \in 1..Len(a) : a[k] < b[k] /\ \A i \in 1..(k - 1) : a[i] = b[i]

\* a < b for ints of one width.
IsNeg(a) == a[1] >= 128
LessInt(a, b) == IF IsNeg(a) # IsNeg(b) THEN IsNeg(a) ELSE LessB(a, b)

\* a * y for a byte y, with the carry c from the right, the carry out dropped.
MulByte(a, y, c) == MulCarry(a, y, c, 256).s

\* x shifted left by s whole bytes, at the length of x.
ShiftBytes(x, s) == SubSeq(x, s + 1, Len(x)) \o ZeroBytes(s)

\* a * b, the low Len(a) bytes: the sum over the bytes of b.
RECURSIVE MulB(_, _)
MulB(a, b) ==
    IF Len(b) = 0 THEN ZeroBytes(Len(a))
    ELSE AddB(ShiftBytes(MulB(a, Front(b)), 1), MulByte(a, Last(b), 0), 0)

\* An int of n bytes from its decimal, and back.
IntBytes(d, n) ==
    IF d.neg THEN NegB(Widen(ToBytes(d.mag), n)) ELSE Widen(ToBytes(d.mag), n)
IntOf(x) ==
    IF IsNeg(x) THEN Neg(FromBytes(NegB(x))) ELSE Pos(FromBytes(x))

\* The bit p of x, and the number of bits of x without its leading zeros.
Bit(x, p) ==
    IF p < 0 \/ p >= 8 * Len(x) THEN 0
    ELSE (x[Len(x) - (p \div 8)] \div (2 ^ (p % 8))) % 2

BitLen(x) ==
    IF IsZeroBytes(x) THEN 0
    ELSE 8 * Len(StripBytes(x)) - 7
         + CHOOSE p \in 0..7 : StripBytes(x)[1] \div (2 ^ p) = 1

\* The byte made of the bits p+7 .. p of x.
ByteAt(x, p) ==
    Bit(x, p) + 2 * Bit(x, p + 1) + 4 * Bit(x, p + 2) + 8 * Bit(x, p + 3)
    + 16 * Bit(x, p + 4) + 32 * Bit(x, p + 5) + 64 * Bit(x, p + 6) + 128 * Bit(x, p + 7)

\* The low n bytes of x * 2^s; for s < 0 the bits below -s are dropped.
Shift(x, s, n) == SubSeq([i \in 1..n |-> ByteAt(x, 8 * (n - i) - s)], 1, n)

\* A bit of x below the bit p is set.
AnyBelow(x, p) == \E q \in 0..(p - 1) : Bit(x, q) = 1

\* The float64 nearest to x * 2^e, or to a value between x * 2^e and
\* (x + 1) * 2^e when sticky: the first 53 bits of x, rounded to nearest,
\* ties to even.  With sticky, x has more than 54 bits.
Round53(x, e, sticky) ==
    IF BitLen(x) <= 53 THEN [m |-> Widen(x, 8), e |-> e]
    ELSE [m |-> IF /\ Bit(x, BitLen(x) - 54) = 1
                   /\ \/ sticky
                      \/ AnyBelow(x, BitLen(x) - 54)
                      \/ Bit(x, BitLen(x) - 53) = 1
                THEN IncB(Shift(x, 53 - BitLen(x), 8))
                ELSE Shift(x, 53 - BitLen(x), 8),
          e |-> e + BitLen(x) - 53]

\* float64(n) for an int n, the bytes of its two's complement: the sign and
\* the float64 nearest to the magnitude (neg tells the sign, m and e the
\* magnitude).
Signed(f, neg) == [m |-> f.m, e |-> f.e, neg |-> neg]
Float64(n) == Signed(Round53(IF IsNeg(n) THEN NegB(n) ELSE n, 0, FALSE), IsNeg(n))

\* The state of the long division by b is [q, r, p]: the quotient and the
\* remainder so far and the next bit of the dividend, -1 after the last.
\* One step brings that bit down to the remainder, here r2, and the quotient
\* gets its bit.
DivBit(st, r2, b) ==
    IF LessB(r2, b)
    THEN [q |-> Shift(st.q, 1, Len(st.q)), r |-> r2, p |-> st.p - 1]
    ELSE [q |-> IncB(Shift(st.q, 1, Len(st.q))), r |-> SubB(r2, b), p |-> st.p - 1]

DivStep(st, d, b) ==
    DivBit(st, AddB(Shift(st.r, 1, Len(st.r)), Widen(<<Bit(d, st.p)>>, Len(st.r)), 0), b)

\* n steps of the long division of d by b from the state st, or as many as
\* there are bits left.
RECURSIVE DivSteps(_, _, _, _)
DivSteps(st, d, b, n) ==
    IF st.p < 0 \/ n = 0 THEN st
    ELSE IF n = 1 THEN DivStep(st, d, b)
    ELSE DivSteps(DivSteps(st, d, b, n \div 2), d, b, n - n \div 2)

\* The quotient of d by b, and the remainder.
DivMod(d, b) ==
    DivSteps([q |-> ZeroBytes(8), r |-> ZeroBytes(8), p |-> BitLen(d) - 1],
             d, b, BitLen(d))

\* The quotient of d by b, and the remainder, in w bytes each.
DivModW(d, b, w) ==
    DivSteps([q |-> ZeroBytes(w), r |-> ZeroBytes(w), p |-> BitLen(d) - 1],
             d, Widen(b, w), BitLen(d))

(***************************************************************************)
(* Floating-point values.  A float is held as the decimal of its exact     *)
(* value (every binary float has one), an infinity as a decimal without    *)
(* digits, and NaN as a decimal without digits before the point.  A        *)
(* decimal that is not the exact value of a float stands for the float     *)
(* nearest to it.                                                          *)
(***************************************************************************)
Incremented(r) == IF r.c = 0 THEN r.s ELSE <<r.c>> \o r.s
IncMag(m) == Incremented(MulCarry(m, 1, 1, 10))

StripTrailing(d) ==
    IF \A i \in 1..Len(d) : d[i] = 0 THEN <<>>
    ELSE SubSeq(d, 1, CHOOSE k \in 1..Len(d) : d[k] # 0 /\ \A i \in (k + 1)..Len(d) : d[i] = 0)

\* d * m^k for a decimal d and m = 2 or 5, up to eight factors at a time.
RECURSIVE MulPow(_, _, _)
MulPow(d, m, k) ==
    IF k = 0 \/ Len(d) = 0 THEN d
    ELSE IF k <= 8 THEN StripZeros(MulSmall(d, m ^ k, 0))
    ELSE MulPow(MulPow(d, m, k \div 2), m, k - k \div 2)

\* The exponent of the least bit of a float of p bits: 2^-149 is the least
\* float32 (24 bits) above zero, and 2^-1074 the least float64 (53 bits).
LeastExp(p) == IF p = 24 THEN -149 ELSE -1074

\* x * 2^e without its k low bits, rounded to nearest, ties to even; sticky
\* says that the value is above x * 2^e (and below (x + 1) * 2^e).
RoundLow(x, e, sticky, k) ==
    IF k <= 0 THEN [m |-> Widen(x, 8), e |-> e]
    ELSE [m |-> IF /\ Bit(x, k - 1) = 1
                   /\ \/ sticky
                      \/ AnyBelow(x, k - 1)
                      \/ Bit(x, k) = 1
                THEN IncB(Shift(x, -k, 8))
                ELSE Shift(x, -k, 8),
          e |-> e + k]

\* The float of p bits nearest to x * 2^e, or to a value between x * 2^e
\* and (x + 1) * 2^e when sticky: the first p bits of x, and fewer below the
\* normal range, where no bit is below the least exponent.  With sticky, x
\* has more than p bits.
RoundBits(x, e, sticky, p) ==
    RoundLow(x, e, sticky,
             IF BitLen(x) - p > LeastExp(p) - e THEN BitLen(x) - p ELSE LeastExp(p) - e)

\* What the quotient st of a * 2^s by b rounds to.
QuotientBits(st, e, p) == RoundBits(st.q, e, ~IsZeroBytes(st.r), p)

\* The float of p bits nearest to a / b: the dividend is scaled by 2^s so
\* that the quotient has more than p bits, in w bytes.
NearestScaled(a, b, p, s, w) == QuotientBits(DivModW(Shift(a, s, w), b, w), -s, p)

NearestQuot(a, b, p, s) == NearestScaled(a, b, p, s, (BitLen(a) + s) \div 8 + 1)

\* The float of p bits nearest to d * 10^x, for a decimal d.
NearestBin(d, x, p) ==
    IF x >= 0 THEN RoundBits(ToBytes(StripZeros(d \o ZeroBytes(x))), 0, FALSE, p)
    ELSE NearestQuot(ToBytes(StripZeros(d)), ToBytes(<<1>> \o ZeroBytes(-x)), p,
                     IF p + 2 + BitLen(ToBytes(<<1>> \o ZeroBytes(-x))) > BitLen(ToBytes(StripZeros(d)))
                     THEN p + 2 + BitLen(ToBytes(<<1>> \o ZeroBytes(-x))) - BitLen(ToBytes(StripZeros(d)))
                     ELSE 0)

\* The float with all its 53 bits in m (the bits of a float32 are among them).
Norm(f) ==
    IF IsZeroBytes(f.m) THEN [m |-> ZeroBytes(8), e |-> 0]
    ELSE [m |-> Shift(f.m, 53 - BitLen(f.m), 8), e |-> f.e - (53 - BitLen(f.m))]

\* The digits of m * 5^k with zeros in front, more than k digits in all.
Scaled5(m, k) ==
    IF Len(MulPow(FromBytes(m), 5, k)) > k THEN MulPow(FromBytes(m), 5, k)
    ELSE ZeroBytes(k + 1 - Len(MulPow(FromBytes(m), 5, k))) \o MulPow(FromBytes(m), 5, k)

\* The decimal of the float f, with the sign neg: m * 2^e, and for e < 0
\* m * 5^-e / 10^-e.
DecimalOf(neg, f) ==
    IF IsZeroBytes(f.m) THEN [neg |-> neg, mag |-> <<0>>, frac |-> <<>>]
    ELSE IF f.e >= 0
    THEN [neg |-> neg, mag |-> MulPow(FromBytes(f.m), 2, f.e), frac |-> <<>>]
    ELSE [neg |-> neg,
          mag |-> StripZeros(SubSeq(Scaled5(f.m, -f.e), 1, Len(Scaled5(f.m, -f.e)) + f.e)),
          frac |-> StripTrailing(SubSeq(Scaled5(f.m, -f.e), Len(Scaled5(f.m, -f.e)) + f.e + 1,
                                        Len(Scaled5(f.m, -f.e))))]

\* The float64 a decimal stands for.
BinOf(n) == NearestBin(n.mag \o n.frac, -Len(n.frac), 53)

\* The float has bits binary digits before the point or fewer (1024 for a
\* float64, 128 for a float32); beyond, it is an infinity.
Finite(f, bits) == BitLen(f.m) + f.e <= bits

\* float64(c) of an integer c: the nearest float64, c itself below 2^53
\* (an integer of 15 digits is).
Float64Of(c) ==
    IF Len(c.mag) <= 15 THEN c
    ELSE DecimalOf(c.neg, RoundBits(ToBytes(c.mag), 0, FALSE, 53))

\* int64(n) of a float64 n.  Within [-2^63, 2^63) it truncates toward zero;
\* outside, the result is implementation-dependent (Go specification,
\* Conversions): the indefinite integer 0x8000000000000000 of the x86
\* conversion instructions, the saturated bound on arm64.
FloatToInt64(n, a) ==
    IF ~Less(n, MinInt64) /\ Less(n, Two63) THEN Trunc(n)
    ELSE IF a = "arm64" THEN (IF IsNaN(n) THEN Zero ELSE IF n.neg THEN MinInt64 ELSE MaxInt64)
    ELSE MinInt64

\* uint64(n) of a float64 n: truncation toward zero within (-1, 2^64), the
\* negative zero included; else implementation-dependent: saturation on
\* arm64, and from the x86 sequence the signed conversion taken as unsigned
\* below 2^63 and 2^63 for the rest.
FloatToUint64(n, a) ==
    IF Less(Neg(<<1>>), n) /\ Less(n, Two64) THEN Trunc(n)
    ELSE IF a = "arm64" THEN (IF n.neg \/ IsNaN(n) THEN Zero ELSE MaxUint64)
    ELSE IF Less(n, Zero) /\ ~Less(n, MinInt64) THEN Pos(FromBytes(IntBytes(Trunc(n), 8)))
    ELSE Two63

\* reflect, Value.SetInt(x) and Value.SetUint(x) on a member of the kind k:
\* the 64-bit x is converted to the type of the member, which keeps its low
\* bits.
LowBytes(n, k, a) == SubSeq(IntBytes(n, 8), 9 - Bits(k, a) \div 8, 8)
InRange(n, k, a) == ~Less(n, MinOf(k, a)) /\ ~Less(MaxOf(k, a), n)
SetInt(n, k, a) == IF InRange(n, k, a) THEN n ELSE IntOf(LowBytes(n, k, a))
SetUint(n, k, a) == IF InRange(n, k, a) THEN n ELSE Pos(FromBytes(LowBytes(n, k, a)))

\* decodeField, integer kinds, case reflect.Float32, reflect.Float64.
intFromFloat(k, n, fullName, a) ==
    IF Less(n, Float64Of(MinOf(k, a))) \/ Less(Float64Of(MaxOf(k, a)), n)
    THEN [err |-> Errorf("field '%v' value exceeds the range of %v.", <<fullName, KindName(k)>>),
          n |-> Zero]
    ELSE [err |-> NoErr,
          n |-> IF k \in UnsignedKinds THEN FloatToUint64(n, a) ELSE FloatToInt64(n, a)]

\* decodeField, integer kinds, case reflect.Int .. reflect.Int64 (an int64
\* source).  An Int64 target has no check; Uint compares uint64(n) to max.
intFromInt(k, n, fullName, a) ==
    IF k # "Int64" /\ (Less(n, MinOf(k, a)) \/ (k # "Uint64" /\ Less(MaxOf(k, a), n)))
    THEN [err |-> Errorf("field '%v' value exceeds the range of %v.", <<fullName, KindName(k)>>),
          n |-> Zero]
    ELSE [err |-> NoErr, n |-> n]

\* decodeField, integer kinds, case reflect.Uint .. reflect.Uint64 (a uint64
\* source).  A Uint64 target has no check.
intFromUint(k, n, fullName, a) ==
    IF k # "Uint64" /\ Less(MaxOf(k, a), n)
    THEN [err |-> Errorf("field '%v' value exceeds the range of %v.", <<fullName, KindName(k)>>),
          n |-> Zero]
    ELSE [err |-> NoErr, n |-> n]

\* A mutant of intFromNumber: a lexeme that does not parse is taken as zero.
intFromNumberLenient(k, text, fullName, a) ==
    [err |-> NoErr,
     n |-> IF k \in UnsignedKinds THEN ParseUint(text, Bits(k, a), a).n
           ELSE ParseInt(text, Bits(k, a), a).n]

\* decodeField, integer kinds, case reflect.String with a json.Number:
\* strconv.ParseInt / ParseUint with the bits of the kind.  The message names
\* the kind, for Int and Uint with the bits ("int64").
intFromNumber(k, text, fullName, a) ==
    LET p == IF k \in UnsignedKinds THEN ParseUint(text, Bits(k, a), a)
             ELSE ParseInt(text, Bits(k, a), a)
        name == IF k \in {"Int", "Uint"} THEN KindName(k) \o Itoa(Bits(k, a)) ELSE KindName(k)
    IN IF ~p.ok
       THEN [err |-> Errorf("field '%v' value is not a valid %v.", <<fullName, name>>),
             n |-> Zero]
       ELSE [err |-> NoErr, n |-> p.n]

\* A mutant of isJSONNumber: every string is taken as a number.
isJSONNumberAnyString(val) == TRUE

\* case reflect.String of the numeric kinds: `valType != typeOfJSONNumber`
\* rejects the strings that are not json.Number.
isJSONNumber(val) == val.kind = "json.Number"

\* decodeField, the integer kinds: dispatch on the kind of the source value.
decodeInt(val, k, cur, fullName, a) ==
    LET r == CASE val.kind = "int" -> intFromInt(k, val.val, fullName, a)
               [] val.kind = "uint" -> intFromUint(k, val.val, fullName, a)
               [] val.kind = "float" -> intFromFloat(k, val.val, fullName, a)
               [] val.kind \in {"string", "json.Number"} ->
                    IF isJSONNumber(val) THEN intFromNumber(k, val.val, fullName, a)
                    ELSE [err |-> Errorf("field '%v' value is string, not a number.",
                                         <<fullName>>),
                          n |-> Zero]
               [] OTHER ->
                    [err |-> Errorf("field '%v' is not an integer in result.", <<fullName>>),
                     n |-> Zero]
    IN IF r.err # NoErr THEN [err |-> r.err, v |-> cur]
       ELSE [err |-> NoErr,
             v |-> IF k \in UnsignedKinds THEN UintV(SetUint(r.n, k, a))
                   ELSE IntV(SetInt(r.n, k, a))]

(***************************************************************************)
(* Target types and values.  A struct type lists its members in declaration *)
(* order, each [name, tag, type] with tag the value of its `facebook` tag;  *)
(* HookT is a named type whose pointer implements json.Unmarshaler.         *)
(***************************************************************************)
StructT(ms) == [kind |-> "Struct", fields |-> ms]
MapT(k, e) == [kind |-> "Map", key |-> k, elem |-> e]
SliceT(e) == [kind |-> "Slice", elem |-> e]
ArrayT(n, e) == [kind |-> "Array", len |-> n, elem |-> e]
PtrT(e) == [kind |-> "Ptr", elem |-> e]
InterfaceT == TypeOf("Interface")
HookT == TypeOf("Unmarshaler")
Member(n, tg, t) == [name |-> n, tag |-> tg, type |-> t]

StructV(vs) == [kind |-> "struct", val |-> vs]
ArrayV(vs) == [kind |-> "array", val |-> vs]
PtrV(vs) == [kind |-> "ptr", val |-> vs]     \* <<>> is the nil pointer
HookV(data) == [kind |-> "unmarshaler", val |-> data]

\* reflect.Zero(t)
RECURSIVE ZeroValue(_)
ZeroValue(t) ==
    CASE t.kind = "Bool" -> BoolV(FALSE)
      [] t.kind \in SignedKinds -> IntV(Zero)
      [] t.kind \in UnsignedKinds -> UintV(Zero)
      [] t.kind \in FloatKinds -> FloatV(Zero)
      [] t.kind = "String" -> StrV(<<>>)
      [] t.kind = "Struct" ->
            StructV([i \in DOMAIN t.fields |-> ZeroValue(t.fields[i].type)])
      [] t.kind = "Map" -> MapV(<<>>)
      [] t.kind = "Slice" -> SliceV(<<>>)
      [] t.kind = "Array" -> ArrayV([i \in 1..t.len |-> ZeroValue(t.elem)])
      [] t.kind = "Ptr" -> PtrV(<<>>)
      [] t.kind = "Unmarshaler" -> HookV(<<>>)
      [] OTHER -> NilV

\* The name fmt prints for a reflect.Kind the decoder does not support
\* (Kind.String).
UnsupportedKindName(k) ==
    CASE k = "Ptr" -> <<"p", "t", "r">>
      [] k = "Interface" -> <<"i", "n", "t", "e", "r", "f", "a", "c", "e">>
      [] k = "Chan" -> <<"c", "h", "a", "n">>
      [] k = "Func" -> <<"f", "u", "n", "c">>
      [] k = "Complex64" -> <<"c", "o", "m", "p", "l", "e", "x", "6", "4">>
      [] k = "Complex128" -> <<"c", "o", "m", "p", "l", "e", "x", "1", "2", "8">>
      [] k = "Uintptr" -> <<"u", "i", "n", "t", "p", "t", "r">>
      [] k = "UnsafePointer" ->
            <<"u", "n", "s", "a", "f", "e", ".", "P", "o", "i", "n", "t", "e", "r">>

\* Value.CanSet(): "settable" is an addressable exported location,
\* "readonly" one reached through an unexported member, "value" a Value that
\* is not addressable (the argument of a call, the result of reflect.New).
CanSet(flag) == flag = "settable"
ElemFlag(flag) == IF flag = "readonly" THEN "readonly" ELSE "settable"

(***************************************************************************)
(* The order of strings, for the canonical text of an Object, and the       *)
(* orders in which a map is ranged over.                                    *)
(***************************************************************************)
\* The order of two strings is the order of their bytes, which for UTF-8 is
\* the order of the code points of the first runes that differ.
CharRank(c) == IndexIn(Runes, c)

StrLess(x, y) ==
    \E k \in 1..Len(y) :
        /\ k > Len(x) \/ CharRank(x[k]) < CharRank(y[k])
        /\ \A i \in 1..(k - 1) : i <= Len(x) /\ x[i] = y[i]

\* sort.Strings of the keys S.
RECURSIVE SortedKeys(_)
SortedKeys(S) ==
    IF S = {} THEN <<>>
    ELSE LET k == CHOOSE x \in S : \A y \in S \ {x} : StrLess(x, y)
         IN <<k>> \o SortedKeys(S \ {k})

\* The n-th arrangement of the sequence q.
RECURSIVE Permuted(_, _)
Permuted(q, n) ==
    IF Len(q) = 0 THEN <<>>
    ELSE <<q[(n % Len(q)) + 1]>>
             \o Permuted(SubSeq(q, 1, n % Len(q)) \o SubSeq(q, (n % Len(q)) + 2, Len(q)),
                         n \div Len(q))

RECURSIVE Factorial(_)
Factorial(n) == IF n <= 1 THEN 1 ELSE n * Factorial(n - 1)

\* val.MapKeys(): the keys S in an order the runtime chooses; ord numbers
\* the orders, every arrangement of the keys being one of them.
MapKeys(S, ord) == Permuted(SortedKeys(S), ord)

\* The orders of the model: its maps have two keys at most.
Orders == {0, 1}

\* The number that is left of ord to order the maps below a map of n keys.
OrderBelow(ord, n) == ord \div Factorial(n)

\* The text of a number: a json.Number's own text, strconv's formatting of
\* an integer.
DigitText(d) == [i \in DOMAIN d |-> DigitChars[d[i] + 1]]

NumText(n) ==
    (IF n.neg THEN <<"-">> ELSE <<>>)
        \o DigitText(n.mag)
        \o (IF n.frac = <<>> THEN <<>> ELSE <<".">> \o DigitText(n.frac))

\* The decimal d * 10^x stands for the float64 f.
Names(d, x, f) == Norm(NearestBin(d, x, 53)) = Norm(f)

\* The decimal of j digits nearest to the digits ds, and the other one next
\* to ds.  Halfway between the two, the nearest is the even one.
Halfway(ds, j) == ds[j + 1] = 5 /\ \A i \in (j + 2)..Len(ds) : ds[i] = 0
RoundsUp(ds, j) ==
    ds[j + 1] > 5 \/ (ds[j + 1] = 5 /\ (~Halfway(ds, j) \/ ds[j] % 2 = 1))
Nearer(ds, j) ==
    IF RoundsUp(ds, j) THEN IncMag(SubSeq(ds, 1, j)) ELSE SubSeq(ds, 1, j)
Farther(ds, j) ==
    IF RoundsUp(ds, j) THEN SubSeq(ds, 1, j) ELSE IncMag(SubSeq(ds, 1, j))

\* strconv.FormatFloat(f, fmt, -1, 64), the digits: the fewest, from j on,
\* that stand for no other float64 than f, whose exact value is ds * 10^x.
RECURSIVE Shortest(_, _, _, _)
Shortest(ds, x, f, j) ==
    IF Len(ds) <= j THEN [d |-> ds, x |-> x]
    ELSE IF Names(Nearer(ds, j), x + Len(ds) - j, f)
    THEN [d |-> Nearer(ds, j), x |-> x + Len(ds) - j]
    ELSE IF Names(Farther(ds, j), x + Len(ds) - j, f)
    THEN [d |-> Farther(ds, j), x |-> x + Len(ds) - j]
    ELSE Shortest(ds, x, f, j + 1)

\* The digits r without zeros at the end.
Trimmed(r) == [d |-> StripTrailing(r.d), x |-> r.x + Len(r.d) - Len(StripTrailing(r.d))]

ShortestOf(e, f) ==
    Trimmed(Shortest(StripZeros(e.mag \o e.frac), -Len(e.frac), f, 1))

\* The shortest digits of the float64 a decimal n # 0 stands for.
ShortestDigits(n) == ShortestOf(DecimalOf(FALSE, BinOf(n)), BinOf(n))

\* Format 'f' of the digits r.
FormatF(r) ==
    IF r.x >= 0 THEN DigitText(r.d \o ZeroBytes(r.x))
    ELSE IF Len(r.d) > -r.x
    THEN DigitText(SubSeq(r.d, 1, Len(r.d) + r.x)) \o <<".">>
             \o DigitText(SubSeq(r.d, Len(r.d) + r.x + 1, Len(r.d)))
    ELSE <<"0", ".">> \o DigitText(ZeroBytes(-r.x - Len(r.d)) \o r.d)

\* Format 'e' of the digits r whose first digit counts 10^sci, the exponent
\* as encoding/json leaves it (e-07 cleaned up to e-7).
FormatE(r, sci) ==
    DigitText(<<r.d[1]>>)
        \o (IF Len(r.d) > 1 THEN <<".">> \o DigitText(Tail(r.d)) ELSE <<>>)
        \o <<"e">> \o (IF sci < 0 THEN <<"-">> \o Itoa(-sci) ELSE <<"+">> \o Itoa(sci))

FormatDigits(r) ==
    IF Len(r.d) - 1 + r.x < -6 \/ Len(r.d) - 1 + r.x >= 21
    THEN FormatE(r, Len(r.d) - 1 + r.x)
    ELSE FormatF(r)

\* encoding/json, floatEncoder, for a finite float64: format 'e' below 1e-6
\* and from 1e21 on, else format 'f'.
FormatFloat(n) ==
    (IF n.neg THEN <<"-">> ELSE <<>>)
        \o (IF IsZero([n EXCEPT !.neg = FALSE]) THEN <<"0">>
            ELSE FormatDigits(ShortestDigits(n)))

\* strconv's text of a float64 that is not finite.
SpecialText(n) ==
    IF IsNaN(n) THEN <<"N","a","N">>
    ELSE IF n.neg THEN <<"-","I","n","f">> ELSE <<"+","I","n","f">>

\* encoding/json, isValidNumber: the lexemes of a JSON number.
RECURSIVE skipDigits(_)
skipDigits(s) == IF Len(s) > 0 /\ IsDigit(Head(s)) THEN skipDigits(Tail(s)) ELSE s

validExponent(s) ==
    IF Head(s) \in {"+", "-"}
    THEN Len(s) > 1 /\ skipDigits(Tail(s)) = <<>>
    ELSE skipDigits(s) = <<>>

validFraction(s) ==
    IF Len(s) >= 2 /\ s[1] \in {"e", "E"} THEN validExponent(Tail(s)) ELSE s = <<>>

validInteger(s) ==
    IF Len(s) >= 2 /\ s[1] = "." /\ IsDigit(s[2])
    THEN validFraction(skipDigits(SubSeq(s, 3, Len(s))))
    ELSE validFraction(s)

validDigits(s) ==
    /\ Len(s) > 0 /\ IsDigit(Head(s))
    /\ IF Head(s) = "0" THEN validInteger(Tail(s)) ELSE validInteger(skipDigits(Tail(s)))

isValidNumber(s) ==
    IF Len(s) > 0 /\ Head(s) = "-" THEN validDigits(Tail(s)) ELSE validDigits(s)

\* encoding/json, the text of a string between its quotes: the quote, the
\* backslash, the control characters below U+0020 and, for HTML, <, > and &
\* are escaped, as are U+2028 and U+2029; a byte that is part of no rune is
\* written as the escape of U+FFFD.  U+007F is kept (it is in safeSet and
\* htmlSafeSet), and so is every rune from U+0080 on but the two named.
EscapeChar(c) ==
    IF IsByte(c) THEN <<"\\", "u", "f", "f", "f", "d">>
    ELSE CASE c = "\"" -> <<"\\", "\"">>
           [] c = "\\" -> <<"\\", "\\">>
           [] c = "\n" -> <<"\\", "n">>
           [] c = "\r" -> <<"\\", "r">>
           [] c = "\t" -> <<"\\", "t">>
           [] c = "\f" -> <<"\\", "f">>
           [] c = "U+0008" -> <<"\\", "b">>
           [] OTHER ->
                IF CodePoint(c) < 32 \/ c \in {"<", ">", "&", "U+2028", "U+2029"}
                THEN <<"\\", "u">> \o Hex(CodePoint(c), 4)
                ELSE <<c>>

RECURSIVE Escaped(_)
Escaped(s) == IF Len(s) = 0 THEN <<>> ELSE EscapeChar(Head(s)) \o Escaped(Tail(s))

Quoted(s) == <<"\"">> \o Escaped(s) \o <<"\"">>

\* What json.Marshal returns: the text, or an error.
Text(data) == [err |-> NoErr, data |-> data]
MarshalError(e) == [err |-> e, data |-> <<>>]

\* encoding/json, stringEncoder for a json.Number: the empty Number is 0,
\* and a Number that is not a JSON number is an error.
marshalNumber(numStr) ==
    IF numStr = <<>> THEN Text(<<"0">>)
    ELSE IF ~isValidNumber(numStr)
    THEN MarshalError(Errorf("json: invalid number literal %q", <<numStr>>))
    ELSE Text(numStr)

\* encoding/json, floatEncoder: an infinity and NaN are an error.
marshalFloat(n) ==
    IF IsInf(n) \/ IsNaN(n)
    THEN MarshalError(Errorf("json: unsupported value: %v", <<SpecialText(n)>>))
    ELSE Text(FormatFloat(n))

Enclosed(l, m, r) == IF m.err # NoErr THEN m ELSE Text(<<l>> \o m.data \o <<r>>)
Listed(a, b) ==
    IF a.err # NoErr THEN a ELSE IF b.err # NoErr THEN b
    ELSE Text(a.data \o <<",">> \o b.data)
Keyed(k, m) == IF m.err # NoErr THEN m ELSE Text(Quoted(k) \o <<":">> \o m.data)

\* json.Marshal(v): the text of a value, the keys of an Object sorted, or the
\* first error met.
RECURSIVE Marshal(_)
RECURSIVE MarshalSeq(_)
RECURSIVE MarshalMap(_, _)
Marshal(v) ==
    CASE v.kind = "nil" -> Text(<<"n","u","l","l">>)
      [] v.kind = "bool" ->
            Text(IF v.val THEN <<"t","r","u","e">> ELSE <<"f","a","l","s","e">>)
      [] v.kind \in {"int", "uint"} -> Text(NumText(v.val))
      [] v.kind = "float" -> marshalFloat(v.val)
      [] v.kind = "json.Number" -> marshalNumber(v.val)
      [] v.kind = "string" -> Text(Quoted(v.val))
      [] v.kind = "slice" -> Enclosed("[", MarshalSeq(v.val), "]")
      [] v.kind = "map" -> Enclosed("{", MarshalMap(v.val, SortedKeys(DOMAIN v.val)), "}")
      [] OTHER -> Text(<<>>)

MarshalSeq(q) ==
    IF Len(q) = 0 THEN Text(<<>>)
    ELSE IF Len(q) = 1 THEN Marshal(q[1])
    ELSE Listed(Marshal(q[1]), MarshalSeq(Tail(q)))

MarshalMap(m, ks) ==
    IF Len(ks) = 0 THEN Text(<<>>)
    ELSE IF Len(ks) = 1 THEN Keyed(ks[1], Marshal(m[ks[1]]))
    ELSE Listed(Keyed(ks[1], Marshal(m[ks[1]])), MarshalMap(m, Tail(ks)))

\* strconv.IsPrint of a rune of Runes: letters, marks, numbers, punctuation,
\* symbols and the ASCII space print; the control characters, U+00A0,
\* U+00AD, U+2028 and U+2029 do not.
IsPrint(c) ==
    /\ CodePoint(c) >= 32
    /\ CodePoint(c) < 127 \/ CodePoint(c) > 160
    /\ c \notin {"­", "U+2028", "U+2029"}

\* strconv.Quote, the %q of a string: the quote, the backslash and the
\* runes that do not print are escaped, a byte that is part of no rune is
\* written \xNN, every other rune is kept.
QuoteChar(c) ==
    IF IsByte(c) THEN <<"\\", "x">> \o Hex(ByteVal(c), 2)
    ELSE CASE c = "\"" -> <<"\\", "\"">>
           [] c = "\\" -> <<"\\", "\\">>
           [] c = "U+0007" -> <<"\\", "a">>
           [] c = "U+0008" -> <<"\\", "b">>
           [] c = "\f" -> <<"\\", "f">>
           [] c = "\n" -> <<"\\", "n">>
           [] c = "\r" -> <<"\\", "r">>
           [] c = "\t" -> <<"\\", "t">>
           [] c = "U+000B" -> <<"\\", "v">>
           [] OTHER ->
                IF IsPrint(c) THEN <<c>>
                ELSE IF CodePoint(c) < 32 \/ CodePoint(c) = 127
                THEN <<"\\", "x">> \o Hex(CodePoint(c), 2)
                ELSE IF CodePoint(c) < 65536
                THEN <<"\\", "u">> \o Hex(CodePoint(c), 4)
                ELSE <<"\\", "U">> \o Hex(CodePoint(c), 8)

RECURSIVE QuoteChars(_)
QuoteChars(s) == IF Len(s) = 0 THEN <<>> ELSE QuoteChar(Head(s)) \o QuoteChars(Tail(s))

Quote(s) == <<"\"">> \o QuoteChars(s) \o <<"\"">>

\* The text of an error of json.Marshal, as %v prints it.
Prefix(e) ==
    IF e.fmt = "json: invalid number literal %q"
    THEN <<"j","s","o","n",":"," ","i","n","v","a","l","i","d"," ",
           "n","u","m","b","e","r"," ","l","i","t","e","r","a","l"," ">>
    ELSE <<"j","s","o","n",":"," ","u","n","s","u","p","p","o","r","t","e","d"," ",
           "v","a","l","u","e",":"," ">>
ErrorText(e) ==
    IF e.fmt = "json: invalid number literal %q"
    THEN Prefix(e) \o Quote(e.v[1]) ELSE Prefix(e) \o e.v[1]

\* The UnmarshalJSON of the model's self-decoding type: it accepts the text
\* of a JSON string and keeps it in its receiver, and rejects any other text
\* with an error of its own (the hook is given the text only).
UnmarshalJSON(data) ==
    IF Len(data) > 0 /\ Head(data) = "\""
    THEN [err |-> NoErr, v |-> HookV(data)]
    ELSE [err |-> Errorf("UnmarshalJSON: input is not a JSON string", <<>>), v |-> HookV(<<>>)]

\* indirect(field) for a settable field of type t that holds cur: the
\* receiver of the json.Unmarshaler found.  A field of the self-decoding
\* type gives its address ("addr").  A pointer is followed while it is not
\* nil and points to a pointer; the pointer it stops at is the receiver if it
\* points to the self-decoding type, be it nil ("nil") or not ("ptr").
RECURSIVE indirect(_, _)
indirect(t, cur) ==
    CASE t.kind = "Unmarshaler" -> "addr"
      [] t.kind = "Ptr" /\ t.elem.kind = "Ptr" /\ cur.val # <<>> ->
            indirect(t.elem, cur.val[1])
      [] t.kind = "Ptr" /\ t.elem.kind = "Unmarshaler" ->
            IF cur.val = <<>> THEN "nil" ELSE "ptr"
      [] OTHER -> "none"

\* strconv, lower(c) = c | ('x' - 'X'), and the fold of A to Z in
\* commonPrefixLenIgnoreCase: as far as the comparison with a lower case
\* ASCII letter goes, A to Z in lower case and every other byte itself.
AsciiUpper == <<"A", "B", "C", "D", "E", "F", "G", "H", "I", "J", "K", "L", "M",
                "N", "O", "P", "Q", "R", "S", "T", "U", "V", "W", "X", "Y", "Z">>
AsciiLower == <<"a", "b", "c", "d", "e", "f", "g", "h", "i", "j", "k", "l", "m",
                "n", "o", "p", "q", "r", "s", "t", "u", "v", "w", "x", "y", "z">>
lower(c) == IF Holds(AsciiUpper, c) THEN AsciiLower[IndexIn(AsciiUpper, c)] ELSE c

\* strconv, special: the infinities and NaN, in any case of the letters,
\* and the number of characters read.
RECURSIVE commonPrefixLenIgnoreCase(_, _)
commonPrefixLenIgnoreCase(s, prefix) ==
    IF Len(s) = 0 \/ Len(prefix) = 0 \/ lower(Head(s)) # Head(prefix) THEN 0
    ELSE 1 + commonPrefixLenIgnoreCase(Tail(s), Tail(prefix))

infinityLen(s) ==
    IF 3 < commonPrefixLenIgnoreCase(s, <<"i","n","f","i","n","i","t","y">>)
       /\ commonPrefixLenIgnoreCase(s, <<"i","n","f","i","n","i","t","y">>) < 8
    THEN 3
    ELSE commonPrefixLenIgnoreCase(s, <<"i","n","f","i","n","i","t","y">>)

special(s) ==
    IF Len(s) = 0 THEN [ok |-> FALSE, f |-> Zero, n |-> 0]
    ELSE IF Head(s) \in {"+", "-"}
    THEN IF infinityLen(Tail(s)) \in {3, 8}
         THEN [ok |-> TRUE, f |-> Inf(Head(s) = "-"), n |-> 1 + infinityLen(Tail(s))]
         ELSE [ok |-> FALSE, f |-> Zero, n |-> 0]
    ELSE IF Head(s) \in {"i", "I"}
    THEN IF infinityLen(s) \in {3, 8}
         THEN [ok |-> TRUE, f |-> Inf(FALSE), n |-> infinityLen(s)]
         ELSE [ok |-> FALSE, f |-> Zero, n |-> 0]
    ELSE IF Head(s) \in {"n", "N"} /\ commonPrefixLenIgnoreCase(s, <<"n","a","n">>) = 3
    THEN [ok |-> TRUE, f |-> NaN, n |-> 3]
    ELSE [ok |-> FALSE, f |-> Zero, n |-> 0]

HexLetters == <<"a", "b", "c", "d", "e", "f">>
IsHexLetter(c) == \E i \in DOMAIN HexLetters : HexLetters[i] = lower(c)
HexVal(c) ==
    IF IsDigit(c) THEN DigitVal(c)
    ELSE 9 + CHOOSE i \in DOMAIN HexLetters : HexLetters[i] = lower(c)

\* strconv, underscoreOK: an underscore stands between digits only (a base
\* prefix counts as a digit).
RECURSIVE underscoreScan(_, _, _, _)
underscoreScan(s, i, hex, saw) ==
    IF i > Len(s) THEN saw # "_"
    ELSE IF IsDigit(s[i]) \/ (hex /\ IsHexLetter(s[i])) THEN underscoreScan(s, i + 1, hex, "0")
    ELSE IF s[i] = "_" THEN saw = "0" /\ underscoreScan(s, i + 1, hex, "_")
    ELSE IF saw = "_" THEN FALSE
    ELSE underscoreScan(s, i + 1, hex, "!")

basePrefix(s) == Len(s) >= 2 /\ s[1] = "0" /\ lower(s[2]) \in {"b", "o", "x"}

unsignedUnderscoreOK(s) ==
    IF basePrefix(s) THEN underscoreScan(s, 3, lower(s[2]) = "x", "0")
    ELSE underscoreScan(s, 1, FALSE, "^")

underscoreOK(s) ==
    IF Len(s) >= 1 /\ Head(s) \in {"-", "+"} THEN unsignedUnderscoreOK(Tail(s))
    ELSE unsignedUnderscoreOK(s)

\* strconv, readFloat, the loop over the mantissa from the index i on: the
\* index after it.
RECURSIVE mantissaEnd(_, _, _, _)
mantissaEnd(s, i, hex, sawdot) ==
    IF i > Len(s) THEN i
    ELSE IF s[i] = "_" \/ IsDigit(s[i]) \/ (hex /\ IsHexLetter(s[i]))
    THEN mantissaEnd(s, i + 1, hex, sawdot)
    ELSE IF s[i] = "." /\ ~sawdot THEN mantissaEnd(s, i + 1, hex, TRUE)
    ELSE i

\* readFloat, the loop over the exponent's digits.
RECURSIVE exponentEnd(_, _)
exponentEnd(s, i) ==
    IF i <= Len(s) /\ (IsDigit(s[i]) \/ s[i] = "_") THEN exponentEnd(s, i + 1) ELSE i

RECURSIVE exponentValue(_, _)
exponentValue(ds, e) ==
    IF Len(ds) = 0 THEN e
    ELSE exponentValue(Tail(ds), IF e < 10000 THEN 10 * e + DigitVal(Head(ds)) ELSE e)

IsMantissaDigit(c) == c # "_" /\ c # "."
IsExponentDigit(c) == c # "_"

\* The index of the point in the mantissa m, 0 without one.
PointOf(m) ==
    IF \E i \in DOMAIN m : m[i] = "." THEN CHOOSE i \in DOMAIN m : m[i] = "." ELSE 0

\* readFloat: what it read of s, [ok, neg, hex, ip, fp, exp, n]: the digits
\* before and after the point, the exponent, and the characters read.
readMantissa(s, i0, hex, m) ==
    [hex |-> hex,
     ip |-> SelectSeq(IF PointOf(m) = 0 THEN m ELSE SubSeq(m, 1, PointOf(m) - 1), IsMantissaDigit),
     fp |-> IF PointOf(m) = 0 THEN <<>>
            ELSE SelectSeq(SubSeq(m, PointOf(m) + 1, Len(m)), IsMantissaDigit),
     i |-> i0 + Len(m)]

readExponent(s, r, i) ==
    [ok |-> i <= Len(s) /\ IsDigit(s[i]),
     exp |-> exponentValue(SelectSeq(SubSeq(s, i, exponentEnd(s, i) - 1), IsExponentDigit), 0),
     n |-> exponentEnd(s, i) - 1]

readTail(s, r) ==
    IF r.i <= Len(s) /\ lower(s[r.i]) = (IF r.hex THEN "p" ELSE "e")
    THEN IF r.i + 1 <= Len(s) /\ s[r.i + 1] \in {"+", "-"}
         THEN [readExponent(s, r, r.i + 2) EXCEPT
                  !.exp = IF s[r.i + 1] = "-" THEN -@ ELSE @]
         ELSE readExponent(s, r, r.i + 1)
    ELSE [ok |-> ~r.hex, exp |-> 0, n |-> r.i - 1]

readNumber(s, neg, r, t) ==
    [ok |-> /\ Len(r.ip) + Len(r.fp) > 0
            /\ t.ok
            /\ (\E k \in 1..t.n : s[k] = "_") => underscoreOK(SubSeq(s, 1, t.n)),
     neg |-> neg, hex |-> r.hex, ip |-> r.ip, fp |-> r.fp, exp |-> t.exp, n |-> t.n]

readUnsigned(s, neg, i0, hex) ==
    readNumber(s, neg,
               readMantissa(s, IF hex THEN i0 + 2 ELSE i0, hex,
                            SubSeq(s, IF hex THEN i0 + 2 ELSE i0,
                                   mantissaEnd(s, IF hex THEN i0 + 2 ELSE i0, hex, FALSE) - 1)),
               readTail(s, readMantissa(s, IF hex THEN i0 + 2 ELSE i0, hex,
                            SubSeq(s, IF hex THEN i0 + 2 ELSE i0,
                                   mantissaEnd(s, IF hex THEN i0 + 2 ELSE i0, hex, FALSE) - 1))))

readSigned(s, neg, i0) ==
    readUnsigned(s, neg, i0,
                 i0 + 2 <= Len(s) /\ s[i0] = "0" /\ lower(s[i0 + 1]) = "x")

readFloat(s) ==
    IF Len(s) > 0 /\ Head(s) \in {"+", "-"} THEN readSigned(s, Head(s) = "-", 2)
    ELSE readSigned(s, FALSE, 1)

\* The bytes of hexadecimal digits.
RECURSIVE HexBytes(_)
HexBytes(h) ==
    IF Len(h) = 0 THEN <<>>
    ELSE IF Len(h) % 2 = 1 THEN <<HexVal(Head(h))>> \o HexBytes(Tail(h))
    ELSE <<16 * HexVal(h[1]) + HexVal(h[2])>> \o HexBytes(SubSeq(h, 3, Len(h)))

DigitsOf(s) == StripZeros(<<0>> \o [i \in DOMAIN s |-> DigitVal(s[i])])

\* strconv, atof64 of what readFloat read: the float64 nearest to the
\* number; one beyond the largest float64 is an error (ErrRange).
Parsed(neg, f) ==
    IF Finite(f, 1024) THEN [ok |-> TRUE, n |-> DecimalOf(neg, f)]
    ELSE [ok |-> FALSE, n |-> Inf(neg)]

\* The decimal d * 10^x: 10^309 and more is beyond every float64, and what
\* is below 10^-330 rounds to zero.
atofDecimal(neg, d, x) ==
    IF d = <<0>> \/ Len(d) + x < -330 THEN [ok |-> TRUE, n |-> [neg |-> neg, mag |-> <<0>>, frac |-> <<>>]]
    ELSE IF Len(d) + x > 309 THEN [ok |-> FALSE, n |-> Inf(neg)]
    ELSE Parsed(neg, NearestBin(d, x, 53))

\* The hexadecimal m * 2^x.
atofHex(neg, m, x) ==
    IF IsZeroBytes(m) \/ BitLen(m) + x < -1080
    THEN [ok |-> TRUE, n |-> [neg |-> neg, mag |-> <<0>>, frac |-> <<>>]]
    ELSE IF BitLen(m) + x > 1025 THEN [ok |-> FALSE, n |-> Inf(neg)]
    ELSE Parsed(neg, RoundBits(m, x, FALSE, 53))

atof64(r) ==
    IF r.hex THEN atofHex(r.neg, HexBytes(r.ip \o r.fp), r.exp - 4 * Len(r.fp))
    ELSE atofDecimal(r.neg, DigitsOf(r.ip \o r.fp), r.exp - Len(r.fp))

\* strconv.ParseFloat(s, 64): [ok, n], ok for a nil error.  It accepts the
\* decimal and the hexadecimal floating-point numbers of the Go syntax, the
\* infinities and NaN; the whole of s must have been read.
ParseFloat(s) ==
    IF special(s).ok
    THEN IF special(s).n = Len(s) THEN [ok |-> TRUE, n |-> special(s).f]
         ELSE [ok |-> FALSE, n |-> Zero]
    ELSE IF ~readFloat(s).ok \/ readFloat(s).n # Len(s) THEN [ok |-> FALSE, n |-> Zero]
    ELSE atof64(readFloat(s))

\* float32(n) of a float64 n: the nearest float32, an infinity beyond the
\* largest one.
Float32Bin(neg, f) == IF Finite(f, 128) THEN DecimalOf(neg, f) ELSE Inf(neg)
Float32Of(n) ==
    IF IsInf(n) \/ IsNaN(n) THEN n
    ELSE Float32Bin(n.neg, RoundBits(BinOf(n).m, BinOf(n).e, FALSE, 24))

\* Value.SetFloat(x) on a field of the kind k.
SetFloat(k, x) == FloatV(IF k = "Float32" THEN Float32Of(x) ELSE x)

\* decodeField, case reflect.Float32, reflect.Float64, for a field of the
\* kind k.
decodeFloat(val, k, cur, fullName) ==
    CASE val.kind \in {"int", "uint"} -> [err |-> NoErr, v |-> SetFloat(k, Float64Of(val.val))]
      [] val.kind = "float" -> [err |-> NoErr, v |-> SetFloat(k, val.val)]
      [] val.kind = "json.Number" ->
            IF ~ParseFloat(val.val).ok
            THEN [err |-> Errorf("field '%v' is not a valid float64.", <<fullName>>), v |-> cur]
            ELSE [err |-> NoErr, v |-> SetFloat(k, ParseFloat(val.val).n)]
      [] val.kind = "string" ->
            [err |-> Errorf("field '%v' value is string, not a number.", <<fullName>>), v |-> cur]
      [] OTHER ->
            [err |-> Errorf("field '%v' is not a float in result.", <<fullName>>), v |-> cur]

\* Result.decode, the parsing of a member's `facebook` tag: the name before
\* the first comma, required when the rest is exactly ",required".
\* A mutant of tagName: the tag's name is ignored.
tagNameIgnored(fbTag) == <<>>

tagName(fbTag) ==
    IF \A i \in DOMAIN fbTag : fbTag[i] # "," THEN fbTag
    ELSE Head(Split(fbTag, ","))

\* A mutant of tagRequired: any tag makes the member required.
tagRequiredIfTagged(fbTag) == fbTag # <<>>

\* A mutant of tagRequired: the rest is taken after the comma, so that it
\* never equals ",required".
tagRequiredOffByOne(fbTag) ==
    /\ \E i \in DOMAIN fbTag : fbTag[i] = ","
    /\ LET index == CHOOSE i \in DOMAIN fbTag :
                        fbTag[i] = "," /\ \A j \in 1..(i - 1) : fbTag[j] # ","
       IN SubSeq(fbTag, index + 1, Len(fbTag)) = <<",","r","e","q","u","i","r","e","d">>

tagRequired(fbTag) ==
    /\ \E i \in DOMAIN fbTag : fbTag[i] = ","
    /\ LET index == CHOOSE i \in DOMAIN fbTag :
                        fbTag[i] = "," /\ \A j \in 1..(i - 1) : fbTag[j] # ","
       IN SubSeq(fbTag, index, Len(fbTag)) = <<",","r","e","q","u","i","r","e","d">>

\* Result.decode: the key a member is looked up under.
memberKey(m) ==
    IF tagName(m.tag) # <<>> THEN tagName(m.tag) ELSE camelCaseToUnderScore(m.name).buf

\* v.Field(i) of a settable struct: an unexported member cannot be set.
memberFlag(m, flag) ==
    IF flag = "settable" /\ Len(m.name) > 0 /\ IsUpper(m.name[1]) THEN "settable"
    ELSE "readonly"

(***************************************************************************)
(* decodeField and Result.decode.  decodeField(val, t, cur, flag, fullName, *)
(* a, ord) decodes the reflect.Value val (Invalid for a nil source) into a  *)
(* field of type t holding cur, and returns the error and the field's new   *)
(* value; a is the architecture and ord the order in which maps are ranged. *)
(***************************************************************************)
PanicErr == Errorf("panic", <<>>)

\* Result.decode, a member whose key is absent: return the missing-field
\* error if it is required, else continue with the next member.
absentMember(m, prefix, name) ==
    IF tagRequired(m.tag)
    THEN [ret |-> TRUE, err |-> Errorf("cannot find field '%v%v' in result.", <<prefix, name>>)]
    ELSE [ret |-> FALSE, err |-> NoErr]

\* A mutant of memberFailed: the error of a member is dropped and the loop
\* goes on.
memberFailedNever(d) == FALSE

\* Result.decode: `if err = decodeField(...); err != nil { return err }`.
memberFailed(d) == d.err # NoErr

MapSet(cur, k, v) ==
    MapV([x \in (DOMAIN cur.val) \cup {k} |-> IF x = k THEN v ELSE cur.val[x]])

\* The result d of decoding into the value a pointer points to, as the
\* result for the pointer.
behindPtr(d) == [err |-> d.err, v |-> PtrV(<<d.v>>)]

\* The field of type t that held cur, once the receiver that indirect found
\* holds x.
RECURSIVE received(_, _, _)
received(t, cur, x) ==
    IF t.kind = "Ptr" THEN PtrV(<<received(t.elem, cur.val[1], x)>>) ELSE x

\* decodeField, the Unmarshaler branch, `return unmarshaler.UnmarshalJSON(data)`:
\* the hook's error is returned as it is; u is what UnmarshalJSON gave.  A
\* hook that stores through a nil receiver panics.
unmarshaled(u, t, cur) ==
    IF u.err # NoErr THEN [err |-> u.err, v |-> cur]
    ELSE IF indirect(t, cur) = "nil" THEN [err |-> PanicErr, v |-> cur]
    ELSE [err |-> NoErr, v |-> received(t, cur, u.v)]

\* decodeField, the Unmarshaler branch: m is what json.Marshal returned for
\* the source value; its error is returned before the hook is called.
marshaled(m, t, cur, fullName) ==
    IF m.err # NoErr
    THEN [err |-> Errorf("fail to marshal value for field '%v'. %v",
                         <<fullName, ErrorText(m.err)>>), v |-> cur]
    ELSE unmarshaled(UnmarshalJSON(m.data), t, cur)

\* decodeField, case reflect.Slice, reflect.Array: the elements r decoded,
\* as the field's value.
elemsSet(t, r) == [err |-> r.err, v |-> IF t.kind = "Array" THEN ArrayV(r.v) ELSE SliceV(r.v)]

\* A mutant of keyIsString: every key type is let through.
keyIsStringAlways(t) == TRUE

\* decodeField, case reflect.Map: `field.Type().Key().Kind() != reflect.String`
\* rejects the map.
keyIsString(t) == t.key.kind = "String"

\* A mutant of isInterface: the shortcut is never taken.
isInterfaceNever(valueType) == FALSE

\* decodeField, the shortcuts for map[string]interface{} and for a slice or
\* an array of interface{}: `valueType.Kind() == reflect.Interface`.
isInterface(valueType) == valueType.kind = "Interface"

\* A mutant of arrayTooShort: an array as long as the source is too short.
arrayTooShortStrict(t, valLen) == t.kind = "Array" /\ t.len <= valLen

\* decodeField, case reflect.Slice, reflect.Array: `field.Len() < valLen` for
\* an array.
arrayTooShort(t, valLen) == t.kind = "Array" /\ t.len < valLen

RECURSIVE decodeField(_, _, _, _, _, _, _)
RECURSIVE decodeValue(_, _, _, _, _, _, _)
RECURSIVE decode(_, _, _, _, _, _, _)
RECURSIVE decodeMembers(_, _, _, _, _, _, _, _)
RECURSIVE decodeMember(_, _, _, _, _, _, _, _, _, _)
RECURSIVE memberDecoded(_, _, _, _, _, _, _, _, _)
RECURSIVE entryDecoded(_, _, _, _, _, _, _, _, _)
RECURSIVE elemDecoded(_, _, _, _, _, _, _, _, _)
RECURSIVE decodeEntries(_, _, _, _, _, _, _, _)
RECURSIVE decodeElems(_, _, _, _, _, _, _, _)

\* decodeField, the pointer handling at its head.
decodeField(val, t, cur, flag, fullName, a, ord) ==
    IF t.kind # "Ptr" THEN decodeValue(val, t, cur, flag, fullName, a, ord)
    ELSE IF val = Invalid
    THEN [err |-> NoErr, v |-> IF cur.val # <<>> /\ CanSet(flag) THEN PtrV(<<>>) ELSE cur]
    ELSE IF cur.val = <<>> /\ ~CanSet(flag)
    THEN [err |-> PanicErr, v |-> cur]       \* field.Set on a Value that cannot be set
    ELSE behindPtr(decodeValue(val, t.elem,
                               IF cur.val = <<>> THEN ZeroValue(t.elem) ELSE cur.val[1],
                               ElemFlag(flag), fullName, a, ord))

\* decodeField after the pointer handling: the checks, the Unmarshaler
\* branch and the switch on the field's kind.
decodeValue(val, t, cur, flag, fullName, a, ord) ==
    IF ~CanSet(flag)
    THEN [err |-> Errorf("field '%v' cannot be decoded. make sure the output value is able to be set.",
                         <<fullName>>), v |-> cur]
    ELSE IF val = Invalid
    THEN [err |-> Errorf("field '%v' is not a pointer. cannot assign nil to it.", <<fullName>>),
          v |-> cur]
    ELSE IF indirect(t, cur) # "none"
    THEN marshaled(Marshal(Interface(val)), t, cur, fullName)
    ELSE CASE t.kind = "Bool" ->
                IF val.kind = "bool" THEN [err |-> NoErr, v |-> val]
                ELSE [err |-> Errorf("field '%v' is not a bool in result.", <<fullName>>), v |-> cur]
           [] t.kind \in IntKinds -> decodeInt(val, t.kind, cur, fullName, a)
           [] t.kind \in FloatKinds -> decodeFloat(val, t.kind, cur, fullName)
           [] t.kind = "String" ->
                IF val.kind \in {"string", "json.Number"} THEN [err |-> NoErr, v |-> StrV(val.val)]
                ELSE [err |-> Errorf("field '%v' is not a string in result.", <<fullName>>), v |-> cur]
           [] t.kind = "Struct" ->
                IF val.kind # "map"
                THEN [err |-> Errorf("field '%v' is not a json object in result.", <<fullName>>),
                      v |-> cur]
                ELSE decode(val, t, cur, flag, fullName, a, ord)
           [] t.kind = "Map" ->
                IF val.kind # "map"
                THEN [err |-> Errorf("field '%v' is not a json object in result.", <<fullName>>),
                      v |-> cur]
                ELSE IF ~keyIsString(t)
                THEN [err |-> Errorf("field '%v' in struct is a map with non-string key type. it's not allowed.",
                                     <<fullName>>), v |-> cur]
                ELSE IF isInterface(t.elem) THEN [err |-> NoErr, v |-> val]
                ELSE decodeEntries(val, IF t.elem.kind = "Ptr" THEN t.elem.elem ELSE t.elem,
                                   t.elem.kind = "Ptr", cur,
                                   MapKeys(DOMAIN val.val, ord), fullName, a,
                                   OrderBelow(ord, Cardinality(DOMAIN val.val)))
           [] t.kind \in {"Slice", "Array"} ->
                IF val.kind # "slice"
                THEN [err |-> Errorf("field '%v' is not a json array in result.", <<fullName>>),
                      v |-> cur]
                ELSE IF arrayTooShort(t, Len(val.val))
                THEN [err |-> Errorf("cannot copy all field '%v' values to struct. expected len is %v. actual len is %v.",
                                     <<fullName, Itoa(t.len), Itoa(Len(val.val))>>), v |-> cur]
                ELSE IF isInterface(t.elem)
                THEN [err |-> NoErr,
                      v |-> IF t.kind = "Array"
                            THEN ArrayV([i \in 1..t.len |->
                                     IF i <= Len(val.val) THEN val.val[i] ELSE cur.val[i]])
                            ELSE val]
                ELSE elemsSet(t, decodeElems(val,
                                   IF t.elem.kind = "Ptr" THEN t.elem.elem ELSE t.elem,
                                   t.elem.kind = "Ptr",
                                   IF t.kind = "Array" THEN cur.val
                                   ELSE [i \in 1..Len(val.val) |-> ZeroValue(t.elem)],
                                   1, fullName, a, ord))
           [] OTHER ->
                [err |-> Errorf("field '%v' in struct uses unsupported type '%v'.",
                                <<fullName, UnsupportedKindName(t.kind)>>), v |-> cur]

\* Result.decode: pointers and interfaces are followed to the target (an
\* interface of the model holds no struct; v.Elem() of a read-only pointer
\* is read-only), which must be a settable struct;
\* its members are decoded in declaration order.
decode(r, t, cur, flag, fullName, a, ord) ==
    IF t.kind = "Ptr" /\ cur.val # <<>>
    THEN behindPtr(decode(r, t.elem, cur.val[1], ElemFlag(flag), fullName, a, ord))
    ELSE IF t.kind # "Struct"
    THEN [err |-> Errorf("output value must be a struct.", <<>>), v |-> cur]
    ELSE IF ~CanSet(flag)
    THEN [err |-> Errorf("output value cannot be set.", <<>>), v |-> cur]
    ELSE decodeMembers(r, t, cur, flag,
                       IF fullName # <<>> THEN fullName \o <<".">> ELSE fullName, 1, a, ord)

\* Result.decode, the loop over the members from member i on.
decodeMembers(r, t, cur, flag, prefix, i, a, ord) ==
    IF i > Len(t.fields) THEN [err |-> NoErr, v |-> cur]
    ELSE decodeMember(r, t, cur, flag, prefix, i, a, ord, t.fields[i], memberKey(t.fields[i]))

\* Result.decode, the body of the loop for member m (the i-th), looked up
\* under name.
decodeMember(r, t, cur, flag, prefix, i, a, ord, m, name) ==
    IF name \notin DOMAIN r.val
    THEN IF absentMember(m, prefix, name).ret
         THEN [err |-> absentMember(m, prefix, name).err, v |-> cur]
         ELSE decodeMembers(r, t, cur, flag, prefix, i + 1, a, ord)
    ELSE memberDecoded(r, t, cur, flag, prefix, i, a, ord,
                       decodeField(ValueOf(r.val[name]), m.type, cur.val[i],
                                   memberFlag(m, flag), prefix \o name, a, ord))

\* Result.decode, after decodeField gave d for the i-th member: return its
\* error, or go on with the next member.
memberDecoded(r, t, cur, flag, prefix, i, a, ord, d) ==
    IF memberFailed(d) THEN [err |-> d.err, v |-> [cur EXCEPT !.val[i] = d.v]]
    ELSE decodeMembers(r, t, [cur EXCEPT !.val[i] = d.v], flag, prefix, i + 1, a, ord)

\* decodeField, case reflect.Map, the loop over the source's keys.
decodeEntries(val, valueType, needAddr, cur, ks, fullName, a, ord) ==
    IF Len(ks) = 0 THEN [err |-> NoErr, v |-> cur]
    ELSE entryDecoded(val, valueType, needAddr, cur, ks, fullName, a, ord,
                      decodeField(ValueOf(Interface(val.val[ks[1]])), PtrT(valueType),
                                  PtrV(<<ZeroValue(valueType)>>), "value",
                                  fullName \o <<".">> \o ks[1], a, ord))

\* decodeField, case reflect.Map, after decodeField gave d for the key ks[1].
entryDecoded(val, valueType, needAddr, cur, ks, fullName, a, ord, d) ==
    IF d.err # NoErr THEN [err |-> d.err, v |-> cur]
    ELSE decodeEntries(val, valueType, needAddr,
                       MapSet(cur, ks[1], IF needAddr THEN d.v ELSE d.v.val[1]),
                       Tail(ks), fullName, a, ord)

\* decodeField, case reflect.Slice, reflect.Array, the loop over the elements
\* from element i (one-based here) on.
decodeElems(val, valueType, needAddr, slc, i, fullName, a, ord) ==
    IF i > Len(val.val) THEN [err |-> NoErr, v |-> slc]
    ELSE elemDecoded(val, valueType, needAddr, slc, i, fullName, a, ord,
                     decodeField(ValueOf(Interface(val.val[i])), PtrT(valueType),
                                 PtrV(<<ZeroValue(valueType)>>), "value",
                                 fullName \o <<".">> \o Itoa(i - 1), a, ord))

\* decodeField, case reflect.Slice, reflect.Array, after decodeField gave d
\* for element i.
elemDecoded(val, valueType, needAddr, slc, i, fullName, a, ord, d) ==
    IF d.err # NoErr THEN [err |-> d.err, v |-> slc]
    ELSE decodeElems(val, valueType, needAddr,
                     [slc EXCEPT ![i] = IF needAddr THEN d.v ELSE d.v.val[1]],
                     i + 1, fullName, a, ord)

\* Result.Decode(v): `err = res.decode(reflect.ValueOf(v), "")`; a panic
\* that is a runtime error is raised again.
Decode(r, t, cur, a, ord) == decode(r, t, cur, "value", <<>>, a, ord)

\* Result.DecodeField(field, v)
DecodeField(r, field, t, cur, a, ord) ==
    LET f == Get(r, field, a)
    IN IF f = NilV
       THEN [err |-> Errorf("field '%v' doesn't exist in result.", <<field>>), v |-> cur]
       ELSE IF f = Panic THEN [err |-> PanicErr, v |-> cur]
       ELSE decodeField(ValueOf(f), t, cur, "value", field, a, ord)

\* The maps and slices that the field decoded from val shares with val: a
\* map[string]interface{} and a []interface{} are set to the source's own map
\* and slice (field.Set(val)), and an array of interface{} is given the
\* source's elements, maps and slices among them; every other container is
\* made by the decoder.  tpath is the path of the field in the target and
\* spath the path of val in the Result; a pair [t, s] says that the container
\* at t in the target is the container at s in the Result.  A nil source
\* leaves a pointer, an entry and an element at their zero value, which
\* shares nothing.
RECURSIVE shared(_, _, _, _)
shared(val, t, tpath, spath) ==
    CASE val = NilV -> {}
      [] val # NilV /\ t.kind = "Ptr" ->
            shared(val, t.elem, Append(tpath, 1), spath)
      [] val # NilV /\ t.kind \in {"Map", "Slice"} /\ isInterface(t.elem) ->
            {[t |-> tpath, s |-> spath]}
      [] val # NilV /\ t.kind = "Array" /\ isInterface(t.elem) ->
            {[t |-> Append(tpath, i), s |-> Append(spath, i)] :
                i \in {x \in DOMAIN val.val : val.val[x].kind \in {"map", "slice"}}}
      [] val # NilV /\ t.kind = "Map" ->
            UNION {shared(val.val[k], t.elem, Append(tpath, k), Append(spath, k)) :
                       k \in DOMAIN val.val}
      [] val # NilV /\ t.kind \in {"Slice", "Array"} ->
            UNION {shared(val.val[i], t.elem, Append(tpath, i), Append(spath, i)) :
                       i \in DOMAIN val.val}
      [] val # NilV /\ t.kind = "Struct" ->
            UNION {shared(val.val[memberKey(t.fields[i])], t.fields[i].type,
                          Append(tpath, i), Append(spath, memberKey(t.fields[i]))) :
                       i \in {x \in DOMAIN t.fields : memberKey(t.fields[x]) \in DOMAIN val.val}}
      [] OTHER -> {}

\* The sharing that a call of decodeField or Result.decode which returns an
\* error leaves behind: that of what was stored before the error.  The
\* members of a struct and the target of a pointer are decoded in place, so
\* the members before the one that failed keep what they were given and the
\* one that failed what it was given so far; an entry of a map and an element
\* of a slice or an array are decoded into a value of their own that is
\* stored after it was decoded, so the entries and elements before the one
\* that failed are kept and that one is not.
\*
\* A part is one pass of a loop of the decoder: the call
\* decodeField(ValueOf(dv), dt, cur, flag, fullName, a, ord) it makes, and
\* the field at tpath, of type t, that receives val (at spath in the Result)
\* if the call returns no error.  step is "member" for a member of a struct,
\* "own" for an entry or an element, "skip" for a member whose key is absent
\* and "stop" for a required member whose key is absent.
Part(step, val, t, dv, dt, cur, flag, fullName, ord, tpath, spath) ==
    [step |-> step, val |-> val, t |-> t, dv |-> dv, dt |-> dt, cur |-> cur, flag |-> flag,
     fullName |-> fullName, ord |-> ord, tpath |-> tpath, spath |-> spath]

\* Result.decode, the body of the loop for member m (the i-th), looked up
\* under name.
memberPart(r, cur, flag, prefix, i, ord, tpath, spath, m, name) ==
    IF name \notin DOMAIN r.val
    THEN Part(IF absentMember(m, prefix, name).ret THEN "stop" ELSE "skip",
              NilV, m.type, NilV, m.type, cur.val[i], flag, prefix, ord, tpath, spath)
    ELSE Part("member", r.val[name], m.type, r.val[name], m.type, cur.val[i],
              memberFlag(m, flag), prefix \o name, ord, Append(tpath, i), Append(spath, name))

\* Result.decode: the passes of its loop over the members.
RECURSIVE decodeParts(_, _, _, _, _, _, _, _)
decodeParts(r, t, cur, flag, fullName, ord, tpath, spath) ==
    IF t.kind = "Ptr" /\ cur.val # <<>>
    THEN decodeParts(r, t.elem, cur.val[1], ElemFlag(flag), fullName, ord, Append(tpath, 1),
                     spath)
    ELSE IF t.kind # "Struct" \/ ~CanSet(flag) THEN <<>>
    ELSE [i \in 1..Len(t.fields) |->
             memberPart(r, cur, flag, IF fullName # <<>> THEN fullName \o <<".">> ELSE fullName,
                        i, ord, tpath, spath, t.fields[i], memberKey(t.fields[i]))]

\* decodeField, case reflect.Map: the pass of the loop for the key k.
entryPart(val, t, valueType, k, fullName, ord, tpath, spath) ==
    Part("own", val.val[k], t.elem, Interface(val.val[k]), PtrT(valueType),
         PtrV(<<ZeroValue(valueType)>>), "value", fullName \o <<".">> \o k, ord,
         Append(tpath, k), Append(spath, k))

\* decodeField, case reflect.Slice, reflect.Array: the pass of the loop for
\* element i (one-based here).
elemPart(val, t, valueType, i, fullName, ord, tpath, spath) ==
    Part("own", val.val[i], t.elem, Interface(val.val[i]), PtrT(valueType),
         PtrV(<<ZeroValue(valueType)>>), "value", fullName \o <<".">> \o Itoa(i - 1), ord,
         Append(tpath, i), Append(spath, i))

\* decodeField after the pointer handling: the passes of the loop it runs.
valueParts(val, t, cur, flag, fullName, ks, ord, tpath, spath) ==
    IF ~CanSet(flag) \/ ValueOf(val) = Invalid \/ indirect(t, cur) # "none" THEN <<>>
    ELSE CASE t.kind = "Struct" /\ val.kind = "map" ->
                decodeParts(val, t, cur, flag, fullName, ord, tpath, spath)
           [] t.kind = "Map" /\ val.kind = "map" /\ keyIsString(t) /\ ~isInterface(t.elem) ->
                [k \in 1..Len(ks) |->
                    entryPart(val, t, IF t.elem.kind = "Ptr" THEN t.elem.elem ELSE t.elem,
                              ks[k], fullName, OrderBelow(ord, Len(ks)), tpath, spath)]
           [] /\ t.kind \in {"Slice", "Array"} /\ val.kind = "slice"
              /\ ~arrayTooShort(t, Len(val.val)) /\ ~isInterface(t.elem) ->
                [i \in 1..Len(val.val) |->
                    elemPart(val, t, IF t.elem.kind = "Ptr" THEN t.elem.elem ELSE t.elem,
                             i, fullName, ord, tpath, spath)]
           [] OTHER -> <<>>

\* decodeField: the passes of the loop that the call of the part p runs.
fieldParts(p) ==
    IF p.dt.kind # "Ptr"
    THEN valueParts(p.val, p.dt, p.cur, p.flag, p.fullName,
                    IF p.val.kind = "map" THEN MapKeys(DOMAIN p.val.val, p.ord) ELSE <<>>,
                    p.ord, p.tpath, p.spath)
    ELSE IF p.cur.val = <<>> /\ ~CanSet(p.flag) THEN <<>>
    ELSE valueParts(p.val, p.dt.elem,
                    IF p.cur.val = <<>> THEN ZeroValue(p.dt.elem) ELSE p.cur.val[1],
                    ElemFlag(p.flag), p.fullName,
                    IF p.val.kind = "map" THEN MapKeys(DOMAIN p.val.val, p.ord) ELSE <<>>,
                    p.ord, Append(p.tpath, 1), p.spath)

\* The sharing that the passes ps of a loop leave behind, the loop ending at
\* the first pass that returns an error.
RECURSIVE sharedParts(_, _)
RECURSIVE sharedPart(_, _, _, _)
sharedParts(ps, a) ==
    IF Len(ps) = 0 \/ ps[1].step = "stop" THEN {}
    ELSE IF ps[1].step = "skip" THEN sharedParts(Tail(ps), a)
    ELSE IF ps[1].val = Panic THEN {}
    ELSE sharedPart(ps[1], Tail(ps), a,
                    decodeField(ValueOf(ps[1].dv), ps[1].dt, ps[1].cur, ps[1].flag,
                                ps[1].fullName, a, ps[1].ord))

\* The same after decodeField gave d for the pass p, rest being the passes
\* after it.
sharedPart(p, rest, a, d) ==
    IF d.err = NoErr THEN shared(p.val, p.t, p.tpath, p.spath) \cup sharedParts(rest, a)
    ELSE IF p.step = "own" THEN {}
    ELSE sharedParts(fieldParts(p), a)

\* The sharing a call of DecodeField leaves behind.
sharedAfter(val, t, cur, fullName, a, ord, spath) ==
    sharedParts(<<Part("member", val, t, val, t, cur, "value", fullName, ord, <<>>, spath)>>, a)

\* The sharing a call of Decode that gave d leaves behind.
sharedAfterDecode(r, t, cur, a, ord, d) ==
    IF d.err = NoErr THEN shared(r, t, <<>>, <<>>)
    ELSE sharedParts(decodeParts(r, t, cur, "value", <<>>, ord, <<>>, <<>>), a)

(***************************************************************************)
(* The coercion specification: DecodeField("n", &x) for x of every integer  *)
(* kind and a source value under the key "n".                               *)
(***************************************************************************)
\* One unit above a bound that is not negative, one unit below a bound that
\* is not positive.
Above(n) == Pos(IncMag(n.mag))
Below(n) == Neg(IncMag(n.mag))

Bounds == {MinInt8, MaxInt8, MaxUint8, MinInt16, MaxInt16, MaxUint16,
           MinInt32, MaxInt32, MaxUint32, MinInt64, MaxInt64, MaxUint64, Zero}
\* float64 values next to 2^63, -2^63 and 2^64 (the spacing there is 1024,
\* 2048 and 4096).
BigFloats == {Pos(<<9,2,2,3,3,7,2,0,3,6,8,5,4,7,7,4,7,8,4>>), Pos(<<9,2,2,3,3,7,2,0,3,6,8,5,4,7,7,7,8,5,6>>), Neg(<<9,2,2,3,3,7,2,0,3,6,8,5,4,7,7,7,8,5,6>>), Pos(<<1,8,4,4,6,7,4,4,0,7,3,7,0,9,5,4,9,5,6,8>>), Pos(<<1,8,4,4,6,7,4,4,0,7,3,7,0,9,5,5,5,7,1,2>>)}
Fractions == {Frac(Pos(<<1>>), <<5>>), Frac(MaxInt8, <<5>>), Frac(Neg(<<0>>), <<5>>),
              Frac(MinInt8, <<5>>), Frac(MaxUint8, <<5>>)}
CoerceNumbers ==
    Bounds \cup {Above(n) : n \in {b \in Bounds : ~b.neg}}
           \cup {Below(n) : n \in {b \in Bounds : b.neg \/ b = Zero}}
           \cup BigFloats \cup Fractions

\* The values a float64 holds exactly: integers below 2^53 (here: of at most
\* 15 digits), halves of small integers, and the listed multiples of 2^10.
Float64Exact(n) ==
    \/ Len(n.mag) <= 15
    \/ n \in {MinInt64, Two63, Two64} \cup BigFloats

IsIntegral(n) == n.frac = <<>>

\* The Go values that carry the number n.
Carriers(n) ==
    {NumberV(NumText(n))}
        \cup (IF IsIntegral(n) /\ ~Less(n, MinInt64) /\ ~Less(MaxInt64, n) THEN {IntV(n)} ELSE {})
        \cup (IF IsIntegral(n) /\ ~n.neg /\ ~Less(MaxUint64, n) THEN {UintV(n)} ELSE {})
        \cup (IF Float64Exact(n) THEN {FloatV(n)} ELSE {})

NonNumbers == {StrV(<<"1", "2">>), NumberV(<<"x">>), NumberV(<<"1", ".", "5">>),
               BoolV(TRUE), SliceV(<<>>), MapV(<<>>), NilV}

\* Lexemes with a sign that stand for an integer.
SignedLexemes == {NumberV(<<"-", "0">>), NumberV(<<"+", "1">>)}

\* The float64 values that are no decimal: the negative zero, the
\* infinities and NaN.
SpecialFloats == {FloatV(Neg(<<0>>)), FloatV(Inf(FALSE)), FloatV(Inf(TRUE)), FloatV(NaN)}

CoerceSources ==
    (UNION {Carriers(n) : n \in CoerceNumbers}) \cup NonNumbers \cup SignedLexemes
        \cup SpecialFloats

Seven == Pos(<<7>>)
OldInt(k) == IF k \in UnsignedKinds THEN UintV(Seven) ELSE IntV(Seven)

KeyN == <<"n">>

InitCoerce ==
    /\ arch \in Archs
    /\ order = 0
    /\ \E k \in IntKinds : typ = PtrT(TypeOf(k)) /\ pre = PtrV(<<OldInt(k)>>)
    /\ \E src \in CoerceSources : res = MapV([x \in {KeyN} |-> src])
    /\ out = pre
    /\ err = NoErr
    /\ op = "init"
    /\ alias = {} /\ LibIdle
    /\ fields = <<KeyN>> /\ got = Idle
    /\ str = <<>> /\ key = <<>>

CallDecodeField ==
    /\ op = "init"
    /\ LET d == DecodeField(res, Join(fields, "."), typ, pre, arch, order)
       IN /\ out' = d.v /\ err' = d.err
          /\ alias' = sharedAfter(GetField(res, fields, arch), typ, pre, Join(fields, "."), arch,
                                order, fields)
    /\ op' = "DecodeField"
    /\ UNCHANGED <<arch, order, typ, res, pre, fields, got, str, key>>
    /\ UNCHANGED libvars

NextCoerce == CallDecodeField

SpecCoerce == InitCoerce /\ [][NextCoerce]_vars

(***************************************************************************)
(* Claims about integer coercion.                                           *)
(***************************************************************************)
Source == res.val[KeyN]
TargetKind == typ.elem.kind
Stored == out.val[1].val
\* The number a lexeme of digits, with an optional sign and an optional
\* fraction, is the decimal of.
Decimal(s) ==
    LET signed == Len(s) > 0 /\ Head(s) \in {"+", "-"}
        body == IF signed THEN Tail(s) ELSE s
        parts == Split(body, ".")
        digits(x) == \A i \in DOMAIN x : IsDigit(x[i])
        ok == /\ Len(parts) \in {1, 2}
              /\ \A i \in DOMAIN parts : digits(parts[i])
              /\ \E i \in DOMAIN parts : Len(parts[i]) > 0
        ip == IF Len(parts[1]) = 0 THEN <<0>>
              ELSE StripZeros([i \in DOMAIN parts[1] |-> DigitVal(parts[1][i])])
        fp == IF Len(parts) = 2 THEN [i \in DOMAIN parts[2] |-> DigitVal(parts[2][i])] ELSE <<>>
    IN IF ~ok THEN [ok |-> FALSE, n |-> Zero]
       ELSE [ok |-> TRUE,
             n |-> [neg |-> signed /\ Head(s) = "-", mag |-> ip, frac |-> fp]]

IsNumeric(v) ==
    \/ v.kind \in {"int", "uint", "float"}
    \/ v.kind = "json.Number" /\ Decimal(v.val).ok
NumOf(v) == IF v.kind = "json.Number" THEN Decimal(v.val).n ELSE v.val

RangeExceeded(e) == e.fmt = "field '%v' value exceeds the range of %v."
InvalidLexeme(e) == e.fmt = "field '%v' value is not a valid %v."

\* C3 as stated: decoding the exact minimum and the exact maximum of the
\* target width succeeds, and decoding one unit below the minimum or above the
\* maximum fails with the range-exceeded error (for a numeric lexeme: with the
\* error of its parse), for every integer kind and every numeric source.
C3_BoundaryLaw ==
    (op = "DecodeField" /\ IsNumeric(Source)) =>
        LET n == NumOf(Source)
            min == MinOf(TargetKind, arch)
            max == MaxOf(TargetKind, arch)
        IN /\ n \in {min, max} => err = NoErr /\ Stored = n
           /\ n \in {Below(min), Above(max)} =>
                /\ out = pre
                /\ IF Source.kind = "json.Number" THEN InvalidLexeme(err)
                   ELSE RangeExceeded(err) /\ err.v[1] = KeyN

\* C4 as stated: whenever decodeField succeeds on an integer target, the
\* value stored lies within the range of the target width and is the source
\* value truncated toward zero.
C4_NeverClampedOrWrapped ==
    (op = "DecodeField" /\ IsNumeric(Source) /\ err = NoErr) =>
        /\ ~Less(Stored, MinOf(TargetKind, arch))
        /\ ~Less(MaxOf(TargetKind, arch), Stored)
        /\ Stored = Trunc(NumOf(Source))

StringNotNumber(e) == e = Errorf("field '%v' value is string, not a number.", <<KeyN>>)
NotAnInteger(e) == e = Errorf("field '%v' is not an integer in result.", <<KeyN>>)

\* C18: an integer target of any width rejects a plain string source, also
\* one whose text is a decimal integer in range, and rejects Bool, Array and
\* Object sources, with a type-mismatch error, and is left unchanged.
C18_PlainStringRejected ==
    op = "DecodeField" =>
        /\ Source.kind = "string" => StringNotNumber(err) /\ out = pre
        /\ Source.kind \in {"bool", "slice", "map"} => NotAnInteger(err) /\ out = pre

C18_Witness ==
    /\ op = "DecodeField"
    /\ Source = StrV(<<"1", "2">>) /\ TargetKind = "Uint16"
    /\ StringNotNumber(err) /\ out = pre

\* The integer a lexeme of an optional sign and decimal digits stands for.
HasSign(t) == Len(t) > 0 /\ t[1] \in {"+", "-"}
LexemeDigits(t) == IF HasSign(t) THEN Tail(t) ELSE t
IsDecimalInteger(t) ==
    Len(LexemeDigits(t)) > 0 /\ \A i \in DOMAIN LexemeDigits(t) : IsDigit(LexemeDigits(t)[i])
LexemeValue(t) ==
    LET m == StripZeros([i \in DOMAIN LexemeDigits(t) |-> DigitVal(LexemeDigits(t)[i])])
    IN IF t[1] = "-" /\ m # <<0>> THEN Neg(m) ELSE Pos(m)
InTargetRange(n) == ~Less(n, MinOf(TargetKind, arch)) /\ ~Less(MaxOf(TargetKind, arch), n)

\* What C19 says of a lexeme source that is `accepted`, and of a floating
\* source with a fractional value within the range.
LexemeLaw(accepted) ==
    /\ Source.kind = "json.Number" =>
          IF accepted
          THEN err = NoErr /\ Stored = LexemeValue(Source.val)
          ELSE InvalidLexeme(err) /\ err.v[1] = KeyN /\ out = pre
    /\ (/\ Source.kind = "float" /\ ~IsNaN(Source.val)
        /\ ~IsIntegral(Source.val) /\ InTargetRange(Source.val)) =>
          err = NoErr /\ Stored = Trunc(Source.val)

\* C19 as stated: a lexeme source decodes exactly when it is a radix-10
\* integer within the range of the target, and fails with the not-valid
\* error, the target unchanged, otherwise; a fractional floating source
\* within the range is accepted and truncated.
C19_LexemeIffDecimalInRange ==
    op = "DecodeField" =>
        LexemeLaw(IsDecimalInteger(Source.val) /\ InTargetRange(LexemeValue(Source.val)))

\* C19 amended: as C19, a lexeme with a sign being accepted by the signed
\* targets only.
C19_LexemeIffParsed ==
    op = "DecodeField" =>
        LexemeLaw(/\ IsDecimalInteger(Source.val)
                  /\ InTargetRange(LexemeValue(Source.val))
                  /\ HasSign(Source.val) => TargetKind \in SignedKinds)

C19_Witness ==
    /\ op = "DecodeField"
    /\ Source = NumberV(<<"1", ".", "5">>) /\ TargetKind = "Int8"
    /\ InvalidLexeme(err) /\ out = pre

(***************************************************************************)
(* The structural specification: Result.Decode(&v) for v of a struct type   *)
(* made of members of the pool below, holding zero or earlier values, and a *)
(* source Object over the keys of its members.                              *)
(***************************************************************************)
KeyId == <<"i", "d">>
KeyName == <<"n", "a", "m", "e">>
KeyUserAge == <<"u", "s", "e", "r", "_", "a", "g", "e">>
KeyInner == <<"i", "n", "n", "e", "r">>
KeyAttrs == <<"a", "t", "t", "r", "s">>
KeyWhen == <<"w", "h", "e", "n">>
KeyTags == <<"t", "a", "g", "s">>
KeyJ == <<"j">>
KeyK == <<"k">>
TagRequired == <<",", "r", "e", "q", "u", "i", "r", "e", "d">>

InnerT == StructT(<<Member(<<"I", "d">>, TagRequired, TypeOf("Int8")),
                    Member(<<"T", "a", "g", "s">>, <<>>, SliceT(TypeOf("String")))>>)

MemberPool ==
    { Member(<<"I", "d">>, TagRequired, TypeOf("Int8")),
      Member(<<"T", "h", "e", "N", "a", "m", "e">>, KeyName, TypeOf("String")),
      Member(<<"U", "s", "e", "r", "A", "g", "e">>, <<>>, TypeOf("Int16")),
      Member(<<"I", "n", "n", "e", "r">>, <<>>, InnerT),
      Member(<<"A", "t", "t", "r", "s">>, <<>>, MapT(TypeOf("String"), TypeOf("Int8"))),
      Member(<<"W", "h", "e", "n">>, KeyWhen \o TagRequired, HookT) }

\* The struct types: every sequence of one to MaxMembers distinct members.
RECURSIVE MemberSeqs(_)
MemberSeqs(n) ==
    IF n = 0 THEN {<<>>}
    ELSE LET shorter == MemberSeqs(n - 1)
         IN shorter \cup
            {Append(q, m) : q \in {x \in shorter : Len(x) = n - 1},
                            m \in MemberPool} 

Distinct(q) == \A i, j \in DOMAIN q : i # j => q[i] # q[j]
StructTypes == {StructT(q) : q \in {x \in MemberSeqs(MaxMembers) : Len(x) > 0 /\ Distinct(x)}}

One == FloatV(Pos(<<1>>))
Obj(f) == MapV(f)
Extend(f, k, v) == [x \in (DOMAIN f) \cup {k} |-> IF x = k THEN v ELSE f[x]]
Obj1(k, v) == Extend(<<>>, k, v)
Obj2(k1, v1, k2, v2) == Extend(Obj1(k1, v1), k2, v2)

\* The values a source Object of the model holds under a key: one that
\* decodes, and ones that do not.
Options(k) ==
    CASE k = KeyId -> {One, FloatV(Above(MaxInt8))}
      [] k = KeyName -> {StrV(<<"A", "d", "a">>), BoolV(TRUE), NilV}
      [] k = KeyUserAge -> {FloatV(Pos(<<3, 0>>)), StrV(<<"x">>)}
      [] k = KeyInner ->
            { Obj(Obj2(KeyId, One, KeyTags, SliceV(<<StrV(<<"x">>)>>))),
              Obj(Obj1(KeyTags, SliceV(<<StrV(<<"x">>)>>))),
              Obj(Obj2(KeyId, One, KeyTags, SliceV(<<StrV(<<"x">>), One>>))) }
      [] k = KeyAttrs ->
            { Obj(Obj2(KeyJ, One, KeyK, FloatV(Pos(<<2>>)))),
              Obj(Obj2(KeyJ, One, KeyK, StrV(<<"x">>))),
              Obj(Obj2(KeyJ, BoolV(TRUE), KeyK, StrV(<<"x">>))) }
      [] k = KeyWhen -> {StrV(<<"t">>), One}
      [] OTHER -> {}

RECURSIVE ObjectsOver(_)
ObjectsOver(ks) ==
    IF Len(ks) = 0 THEN {<<>>}
    ELSE LET rest == ObjectsOver(Tail(ks))
         IN rest \cup {Extend(f, ks[1], v) : f \in rest, v \in Options(ks[1])}

\* The source Objects for a struct type: over the keys of its members.
SourcesFor(t) == {Obj(f) : f \in ObjectsOver([i \in DOMAIN t.fields |-> memberKey(t.fields[i])])}

\* A value of type t that an earlier call left in the target.
RECURSIVE Filled(_)
Filled(t) ==
    CASE t.kind \in SignedKinds -> IntV(Seven)
      [] t.kind \in UnsignedKinds -> UintV(Seven)
      [] t.kind = "String" -> StrV(<<"o", "l", "d">>)
      [] t.kind = "Struct" -> StructV([i \in DOMAIN t.fields |-> Filled(t.fields[i].type)])
      [] t.kind = "Map" -> MapV(Obj1(<<"o", "l", "d">>, Filled(t.elem)))
      [] t.kind = "Slice" -> SliceV(<<Filled(t.elem)>>)
      [] t.kind = "Array" -> ArrayV([i \in 1..t.len |-> Filled(t.elem)])
      [] t.kind = "Ptr" -> PtrV(<<Filled(t.elem)>>)
      [] t.kind = "Interface" -> StrV(<<"o", "l", "d">>)
      [] t.kind = "Unmarshaler" -> HookV(<<"\"">> \o <<"o", "l", "d">> \o <<"\"">>)
      [] OTHER -> ZeroValue(t)

Init ==
    /\ arch = "amd64"
    /\ order \in Orders
    /\ \E t \in StructTypes :
         /\ typ = PtrT(t)
         /\ pre \in {PtrV(<<ZeroValue(t)>>), PtrV(<<Filled(t)>>)}
         /\ res \in SourcesFor(t)
    /\ out = pre
    /\ err = NoErr
    /\ op = "init"
    /\ alias = {} /\ LibIdle
    /\ fields = <<>> /\ got = Idle
    /\ str = <<>> /\ key = <<>>

CallDecode ==
    /\ op = "init"
    /\ LET d == Decode(res, typ, pre, arch, order)
       IN /\ out' = d.v /\ err' = d.err
          /\ alias' = sharedAfterDecode(res, typ, pre, arch, order, d)
    /\ op' = "Decode"
    /\ UNCHANGED <<arch, order, typ, res, pre, fields, got, str, key>>
    /\ UNCHANGED libvars

Next == CallDecode

Spec == Init /\ [][Next]_vars

(***************************************************************************)
(* Claims about Result.Decode.                                              *)
(***************************************************************************)
Target == typ.elem
Members == Target.fields
PreS == pre.val[1]
OutS == out.val[1]
KeyOf(i) == memberKey(Members[i])
Present(i) == KeyOf(i) \in DOMAIN res.val

\* The member's tag ends with the required marker after a name without comma.
MarkedRequired(m) ==
    /\ Len(m.tag) >= Len(TagRequired)
    /\ SubSeq(m.tag, Len(m.tag) - Len(TagRequired) + 1, Len(m.tag)) = TagRequired
    /\ \A i \in 1..(Len(m.tag) - Len(TagRequired)) : m.tag[i] # ","

MissingField(prefix, k) == Errorf("cannot find field '%v%v' in result.", <<prefix, k>>)

\* The text an error message holds between its quotes.
ErrPath(e) ==
    IF e.fmt = "cannot find field '%v%v' in result." THEN e.v[1] \o e.v[2]
    ELSE IF Len(e.v) > 0 THEN e.v[1]
    ELSE <<>>

\* What decoding member i alone, from the pre-call value, gives.
Alone(i) ==
    decodeField(ValueOf(res.val[KeyOf(i)]), Members[i].type, PreS.val[i], "settable",
                KeyOf(i), arch, order)
Fails(i) == IF Present(i) THEN Alone(i).err # NoErr ELSE MarkedRequired(Members[i])
ErrorOf(i) == IF Present(i) THEN Alone(i).err ELSE MissingField(<<>>, KeyOf(i))
FirstFailing ==
    IF \E i \in DOMAIN Members : Fails(i)
    THEN CHOOSE i \in DOMAIN Members : Fails(i) /\ \A j \in 1..(i - 1) : ~Fails(j)
    ELSE 0

\* C1: a member that is not marked required and whose key is absent from the
\* Object keeps its pre-call value and no error is reported for it; decoding
\* the empty Object into a struct of optional members succeeds and changes
\* nothing.
C1_OptionalAbsentUntouched ==
    op = "Decode" =>
        /\ \A i \in DOMAIN Members :
              (~MarkedRequired(Members[i]) /\ ~Present(i)) =>
                  /\ OutS.val[i] = PreS.val[i]
                  /\ ErrPath(err) # KeyOf(i)
        /\ (res.val = <<>> /\ \A i \in DOMAIN Members : ~MarkedRequired(Members[i]))
              => err = NoErr /\ out = pre

C1_Witness ==
    /\ op = "Decode" /\ err = NoErr
    /\ \E i \in DOMAIN Members :
          /\ ~MarkedRequired(Members[i]) /\ ~Present(i)
          /\ Members[i].tag # <<>>
          /\ PreS.val[i] # ZeroValue(Members[i].type)
    /\ \E j \in DOMAIN Members : Present(j) /\ OutS.val[j] # PreS.val[j]

\* The required members of struct type t absent from Object r are named by
\* the error e, as far as `guard` lets them.
RequiredNamed(t, r, prefix, e, guard(_)) ==
    \A i \in DOMAIN t.fields :
        (/\ MarkedRequired(t.fields[i])
         /\ memberKey(t.fields[i]) \notin DOMAIN r.val
         /\ guard(i))
            => e = MissingField(prefix, memberKey(t.fields[i]))

\* C2 as stated: decoding an Object that lacks the key of a required member
\* fails with the missing-required-field error naming that member's path.
C2_MissingRequiredNamed ==
    op = "Decode" => RequiredNamed(Target, res, <<>>, err, LAMBDA i : TRUE)

\* C2 amended: decoding an Object that lacks the key of a required member
\* always fails; the error is the missing-required-field error naming that
\* member's dotted path unless a member declared before it fails first.
C2_MissingRequiredFails ==
    op = "Decode" =>
        /\ (\E i \in DOMAIN Members : MarkedRequired(Members[i]) /\ ~Present(i))
              => err # NoErr
        /\ RequiredNamed(Target, res, <<>>, err, LAMBDA i : \A j \in 1..(i - 1) : ~Fails(j))
        /\ \A i \in DOMAIN Members :
              (/\ Members[i].type.kind = "Struct"
               /\ Present(i)
               /\ res.val[KeyOf(i)].kind = "map"
               /\ \A j \in 1..(i - 1) : ~Fails(j))
                  => RequiredNamed(Members[i].type, res.val[KeyOf(i)],
                                   KeyOf(i) \o <<".">>, err,
                                   LAMBDA n : n = 1)

C2_Witness ==
    /\ op = "Decode"
    /\ \E i \in DOMAIN Members :
          /\ i > 1 /\ MarkedRequired(Members[i]) /\ ~Present(i)
          /\ Members[i].tag # TagRequired
          /\ err = MissingField(<<>>, KeyOf(i))
          /\ Present(1) /\ OutS.val[1] # PreS.val[1]

\* C5: members are decoded in declaration order and the first error aborts
\* the call: the call returns the error of the first failing member k, the
\* members before k hold what was decoded into them (or their pre-call value
\* if their key is absent) and the members after k their pre-call value.
C5_FirstErrorAborts ==
    op = "Decode" =>
        LET k == FirstFailing
        IN IF k = 0
           THEN /\ err = NoErr
                /\ \A i \in DOMAIN Members :
                      OutS.val[i] = IF Present(i) THEN Alone(i).v ELSE PreS.val[i]
           ELSE /\ err = ErrorOf(k)
                /\ \A i \in 1..(k - 1) :
                      OutS.val[i] = IF Present(i) THEN Alone(i).v ELSE PreS.val[i]
                /\ \A i \in (k + 1)..Len(Members) : OutS.val[i] = PreS.val[i]

C5_Witness ==
    /\ op = "Decode" /\ Len(Members) = 3 /\ FirstFailing = 2
    /\ Present(1) /\ OutS.val[1] # PreS.val[1]
    /\ Present(3) /\ ~Fails(3) /\ Alone(3).v # PreS.val[3]
    /\ OutS.val[3] = PreS.val[3]

IsPrefix(x, y) == Len(x) <= Len(y) /\ SubSeq(y, 1, Len(x)) = x

\* C6 as stated: every error of a decode carries the dotted path of the
\* failing location: the key of the failing member itself, or that key
\* followed by the keys and indices below it.
C6_ErrorsCarryPath ==
    (op = "Decode" /\ err # NoErr) =>
        LET k == FirstFailing
            scalar == Members[k].type.kind \notin {"Struct", "Map", "Slice", "Array"}
        IN /\ k # 0
           /\ IF scalar \/ ~Present(k) THEN ErrPath(err) = KeyOf(k)
              ELSE ErrPath(err) = KeyOf(k) \/ IsPrefix(KeyOf(k) \o <<".">>, ErrPath(err))

(***************************************************************************)
(* The path-lookup specification: a Result and a path are drawn, then Get   *)
(* is called with the dotted string or GetField with the segments.          *)
(***************************************************************************)
PathKeys == {<<"a">>, <<"0">>}
PathLeaves == {NilV, StrV(<<"v">>)}
MapsOver(K, T) == {MapV(f) : f \in UNION {[S -> T] : S \in SUBSET K}}
PathNodes ==
    PathLeaves \cup {SliceV(q) : q \in SeqsUpTo(PathLeaves, MaxArrLen)}
               \cup MapsOver(PathKeys, PathLeaves)

\* {"a":{"b":[1,2,{"c":"v"}]}}
ExampleTree ==
    MapV([k \in {<<"a">>} |-> MapV([j \in {<<"b">>} |->
        SliceV(<<FloatV(Pos(<<1>>)), FloatV(Pos(<<2>>)),
                 MapV([i \in {<<"c">>} |-> StrV(<<"v">>)])>>)])])

PathTrees == MapsOver(PathKeys, PathNodes) \cup {ExampleTree}

Segments == {<<"a">>, <<"0">>, <<"1">>, <<>>, <<"a", ".", "0">>}
Paths == SeqsUpTo(Segments, MaxPathLen)
             \cup {<<<<"a">>, <<"b">>, <<"2">>, <<"c">>>>, <<<<"a">>, <<"b">>, <<"5">>>>}

InitPath ==
    /\ res \in PathTrees
    /\ fields \in Paths
    /\ got = Idle
    /\ op = "init"
    /\ alias = {} /\ LibIdle
    /\ arch = "amd64" /\ order = 0
    /\ typ = Idle /\ pre = Idle /\ out = Idle /\ err = Idle
    /\ str = <<>> /\ key = <<>>

CallGet ==
    /\ op = "init"
    /\ fields \in Paths
    /\ got' = Get(res, Join(fields, "."), arch)
    /\ op' = "Get"
    /\ UNCHANGED <<arch, order, typ, res, pre, out, err, fields, str, key>>
    /\ UNCHANGED <<alias, libvars>>

CallGetField ==
    /\ op = "init"
    /\ fields \in Paths
    /\ got' = GetField(res, fields, arch)
    /\ op' = "GetField"
    /\ UNCHANGED <<arch, order, typ, res, pre, out, err, fields, str, key>>
    /\ UNCHANGED <<alias, libvars>>

NextPath == CallGet \/ CallGetField

SpecPath == InitPath /\ [][NextPath]_vars

(***************************************************************************)
(* Claims about path lookup.                                                *)
(***************************************************************************)
NoDots(segs) == \A i \in DOMAIN segs : \A j \in DOMAIN segs[i] : segs[i][j] # "."

\* C7 as stated: for every tree and every sequence of segments without dots,
\* Get on the joined string and GetField on the segments return the same.
C7_GetEqualsGetField ==
    (op = "Get" /\ NoDots(fields)) => got = GetField(res, fields, arch)

\* C7 amended: the same, for every such sequence other than the one made of
\* a single empty segment (whose joined string "" is the empty path, for which
\* Get returns the whole Result).
C7_GetEqualsGetFieldNonEmpty ==
    (op = "Get" /\ NoDots(fields) /\ fields # <<<<>>>>)
        => got = GetField(res, fields, arch)

C7_Witness ==
    /\ op = "Get" /\ NoDots(fields) /\ Len(fields) = 2
    /\ got = StrV(<<"v">>)

\* The resolution rule of the specification (4.1), segment by segment.
RECURSIVE StrToNat(_)
StrToNat(s) ==
    IF Len(s) = 0 THEN 0
    ELSE 10 * StrToNat(SubSeq(s, 1, Len(s) - 1)) + DigitVal(s[Len(s)])

IsIndexOf(seg, node) ==
    /\ Len(seg) > 0
    /\ \A i \in DOMAIN seg : IsDigit(seg[i])
    /\ StrToNat(seg) < Len(node.val)

RECURSIVE Resolve(_, _)
Resolve(node, segs) ==
    IF Len(segs) = 0 THEN node
    ELSE CASE node.kind = "map" ->
                IF Head(segs) \in DOMAIN node.val
                THEN Resolve(node.val[Head(segs)], Tail(segs))
                ELSE NilV
           [] node.kind = "slice" ->
                IF IsIndexOf(Head(segs), node)
                THEN Resolve(node.val[StrToNat(Head(segs)) + 1], Tail(segs))
                ELSE NilV
           [] OTHER -> NilV

\* Every node met while segments remain is an Object or an Array.
RECURSIVE OnlyContainers(_, _)
OnlyContainers(node, segs) ==
    \/ Len(segs) = 0
    \/ /\ node.kind = "map"
       /\ Head(segs) \in DOMAIN node.val
            => OnlyContainers(node.val[Head(segs)], Tail(segs))
    \/ /\ node.kind = "slice"
       /\ IsIndexOf(Head(segs), node)
            => OnlyContainers(node.val[StrToNat(Head(segs)) + 1], Tail(segs))

\* C8 as stated: path resolution never panics, and a path that reaches a
\* Null, Bool, Number or String node with segments remaining resolves to nil.
C8_NeverPanics ==
    op \in {"Get", "GetField"} =>
        /\ got # Panic
        /\ (op = "GetField" /\ ~OnlyContainers(res, fields)) => got = NilV

\* C9: at an Object node the segment selects the value under the equal key, at
\* an Array node the element at the index the segment parses to, absent
\* otherwise; a.b.2.c resolves to "v" and a.b.5 to absent on the example tree.
C9_ResolutionRule ==
    /\ (op = "GetField" /\ OnlyContainers(res, fields))
            => got = Resolve(res, fields)
    /\ (op = "Get" /\ NoDots(fields) /\ fields # <<<<>>>> /\ OnlyContainers(res, fields))
            => got = Resolve(res, fields)
    /\ (op \in {"Get", "GetField"} /\ res = ExampleTree
            /\ fields = <<<<"a">>, <<"b">>, <<"2">>, <<"c">>>>) => got = StrV(<<"v">>)
    /\ (op \in {"Get", "GetField"} /\ res = ExampleTree
            /\ fields = <<<<"a">>, <<"b">>, <<"5">>>>) => got = NilV

C9_Witness ==
    /\ op = "Get" /\ res = ExampleTree
    /\ fields = <<<<"a">>, <<"b">>, <<"2">>, <<"c">>>>
    /\ got = StrV(<<"v">>)


(***************************************************************************)
(* The name-derivation specification: an identifier is drawn, then derived. *)
(***************************************************************************)
NameAlphabet == {"A", "B", "É", "a", "b", "_", "-", " "}

\* More runes: a digit, an upper case letter that has no lower case (U+03D2),
\* U+FFFD and a byte that is part of no rune.
OddAlphabet == {"M", "D", "5", "a", "-", "U+03D2", "U+FFFD", "0xFF"}

Identifiers ==
    (SeqsUpTo(NameAlphabet, MaxNameLen) \cup SeqsUpTo(OddAlphabet, MaxNameLen - 1)) \ {<<>>}

InitName ==
    /\ str \in Identifiers
    /\ key = <<>>
    /\ op = "init"
    /\ alias = {} /\ LibIdle
    /\ arch = "amd64" /\ order = 0
    /\ typ = Idle /\ res = Idle /\ pre = Idle /\ out = Idle /\ err = Idle
    /\ fields = <<>> /\ got = Idle

\* key = camelCaseToUnderScore(str); a call that panics returns no key.
DeriveKey ==
    /\ op = "init"
    /\ str \in Identifiers
    /\ key' = IF camelCaseToUnderScore(str).panic THEN <<>>
              ELSE camelCaseToUnderScore(str).buf
    /\ err' = IF camelCaseToUnderScore(str).panic THEN PanicErr ELSE NoErr
    /\ op' = "camelCaseToUnderScore"
    /\ UNCHANGED <<arch, order, typ, res, pre, out, fields, got, str>>
    /\ UNCHANGED <<alias, libvars>>

NextName == DeriveKey

SpecName == InitName /\ [][NextName]_vars

\* The lower case letters (category Ll) among Runes.
LowerLetters ==
    {"a", "b", "c", "d", "e", "f", "g", "h", "i", "j", "k",
    "l", "m", "n", "o", "p", "q", "r", "s", "t", "u", "v", "w", "x", "y",
    "z", "µ", "ß", "à", "á", "â", "ã", "ä", "å", "æ", "ç", "è", "é", "ê",
    "ë", "ì", "í", "î", "ï", "ð", "ñ", "ò", "ó", "ô", "õ", "ö", "ø", "ù",
    "ú", "û", "ü", "ý", "þ", "ÿ", "U+0101", "U+0103", "U+0105", "U+0107",
    "U+0109", "U+010B", "U+010D", "U+010F", "U+0111", "U+0113", "U+0115",
    "U+0117", "U+0119", "U+011B", "U+011D", "U+011F", "U+0121", "U+0123",
    "U+0125", "U+0127", "U+0129", "U+012B", "U+012D", "U+012F", "U+0133",
    "U+0135", "U+0137", "U+013A", "U+013C", "U+013E", "U+0140", "U+0142",
    "U+0144", "U+0146", "U+0148", "U+014B", "U+014D", "U+014F", "U+0151",
    "U+0153", "U+0155", "U+0157", "U+0159", "U+015B", "U+015D", "U+015F",
    "U+0161", "U+0163", "U+0165", "U+0167", "U+0169", "U+016B", "U+016D",
    "U+016F", "U+0171", "U+0173", "U+0175", "U+0177", "U+017A", "U+017C",
    "U+017E", "U+0180", "U+0183", "U+0185", "U+0188", "U+018C", "U+0192",
    "U+0195", "U+0199", "U+019A", "U+019E", "U+01A1", "U+01A3", "U+01A5",
    "U+01A8", "U+01AD", "U+01B0", "U+01B4", "U+01B6", "U+01B9", "U+01BD",
    "U+01BF", "ǆ", "ǉ", "ǌ", "U+01CE", "U+01D0", "U+01D2", "U+01D4",
    "U+01D6", "U+01D8", "U+01DA", "U+01DC", "U+01DD", "U+01DF", "U+01E1",
    "U+01E3", "U+01E5", "U+01E7", "U+01E9", "U+01EB", "U+01ED", "U+01EF",
    "U+01F3", "U+01F5", "U+01F9", "U+01FB", "U+01FD", "U+01FF", "U+0201",
    "U+0203", "U+0205", "U+0207", "U+0209", "U+020B", "U+020D", "U+020F",
    "U+0211", "U+0213", "U+0215", "U+0217", "U+0219", "U+021B", "U+021D",
    "U+021F", "U+0223", "U+0225", "U+0227", "U+0229", "U+022B", "U+022D",
    "U+022F", "U+0231", "U+0233", "U+023C", "U+023F", "U+0240", "U+0242",
    "U+0247", "U+0249", "U+024B", "U+024D", "U+024F", "U+0250", "U+0251",
    "U+0252", "U+0253", "U+0254", "U+0256", "U+0257", "U+0259", "U+025B",
    "U+025C", "U+0260", "U+0261", "U+0263", "U+0265", "U+0266", "U+0268",
    "U+0269", "U+026A", "U+026B", "U+026C", "U+026F", "U+0271", "U+0272",
    "U+0275", "U+027D", "U+0280", "U+0282", "U+0283", "U+0287", "U+0288",
    "U+0289", "U+028A", "U+028B", "U+028C", "U+0292", "U+029D", "U+029E",
    "U+0371", "U+0373", "U+0377", "U+037B", "U+037C", "U+037D", "ά", "έ",
    "ή", "ί", "α", "β", "γ", "δ", "ε", "ζ", "η", "θ", "ι", "κ", "λ", "μ",
    "ν", "ξ", "ο", "π", "ρ", "σ", "τ", "υ", "φ", "χ", "ψ", "ω", "ϊ", "ϋ",
    "ό", "ύ", "ώ", "U+03D7", "U+03D9", "U+03DB", "U+03DD", "U+03DF",
    "U+03E1", "U+03E3", "U+03E5", "U+03E7", "U+03E9", "U+03EB", "U+03ED",
    "U+03EF", "U+03F2", "U+03F3", "U+03F8", "U+03FB", "U+0430", "U+0431",
    "U+0432", "U+0433", "U+0434", "U+0435", "U+0436", "U+0437", "U+0438",
    "U+0439", "U+043A", "U+043B", "U+043C", "U+043D", "U+043E", "U+043F",
    "U+0440", "U+0441", "U+0442", "U+0443", "U+0444", "U+0445", "U+0446",
    "U+0447", "U+0448", "U+0449", "U+044A", "U+044B", "U+044C", "U+044D",
    "U+044E", "U+044F", "U+0450", "U+0451", "U+0452", "U+0453", "U+0454",
    "U+0455", "U+0456", "U+0457", "U+0458", "U+0459", "U+045A", "U+045B",
    "U+045C", "U+045D", "U+045E", "U+045F", "U+0461", "U+0463", "U+0465",
    "U+0467", "U+0469", "U+046B", "U+046D", "U+046F", "U+0471", "U+0473",
    "U+0475", "U+0477", "U+0479", "U+047B", "U+047D", "U+047F", "U+0481",
    "U+048B", "U+048D", "U+048F", "U+0491", "U+0493", "U+0495", "U+0497",
    "U+0499", "U+049B", "U+049D", "U+049F", "U+04A1", "U+04A3", "U+04A5",
    "U+04A7", "U+04A9", "U+04AB", "U+04AD", "U+04AF", "U+04B1", "U+04B3",
    "U+04B5", "U+04B7", "U+04B9", "U+04BB", "U+04BD", "U+04BF", "U+04C2",
    "U+04C4", "U+04C6", "U+04C8", "U+04CA", "U+04CC", "U+04CE", "U+04CF",
    "U+04D1", "U+04D3", "U+04D5", "U+04D7", "U+04D9", "U+04DB", "U+04DD",
    "U+04DF", "U+04E1", "U+04E3", "U+04E5", "U+04E7", "U+04E9", "U+04EB",
    "U+04ED", "U+04EF", "U+04F1", "U+04F3", "U+04F5", "U+04F7", "U+04F9",
    "U+04FB", "U+04FD", "U+04FF", "U+0501", "U+0503", "U+0505", "U+0507",
    "U+0509", "U+050B", "U+050D", "U+050F", "U+0511", "U+0513", "U+0515",
    "U+0517", "U+0519", "U+051B", "U+051D", "U+051F", "U+0521", "U+0523",
    "U+0525", "U+0527", "U+0529", "U+052B", "U+052D", "U+052F", "U+0561",
    "U+0562", "U+0563", "U+0564", "U+0565", "U+0566", "U+0567", "U+0568",
    "U+0569", "U+056A", "U+056B", "U+056C", "U+056D", "U+056E", "U+056F",
    "U+0570", "U+0571", "U+0572", "U+0573", "U+0574", "U+0575", "U+0576",
    "U+0577", "U+0578", "U+0579", "U+057A", "U+057B", "U+057C", "U+057D",
    "U+057E", "U+057F", "U+0580", "U+0581", "U+0582", "U+0583", "U+0584",
    "U+0585", "U+0586", "U+10D0", "U+10D1", "U+10D2", "U+10D3", "U+10D4",
    "U+10D5", "U+10D6", "U+10D7", "U+10D8", "U+10D9", "U+10DA", "U+10DB",
    "U+10DC", "U+10DD", "U+10DE", "U+10DF", "U+10E0", "U+10E1", "U+10E2",
    "U+10E3", "U+10E4", "U+10E5", "U+10E6", "U+10E7", "U+10E8", "U+10E9",
    "U+10EA", "U+10EB", "U+10EC", "U+10ED", "U+10EE", "U+10EF", "U+10F0",
    "U+10F1", "U+10F2", "U+10F3", "U+10F4", "U+10F5", "U+10F6", "U+10F7",
    "U+10F8", "U+10F9", "U+10FA", "U+10FD", "U+10FE", "U+10FF", "U+13F8",
    "U+13F9", "U+13FA", "U+13FB", "U+13FC", "U+13FD", "U+1D79", "U+1D7D",
    "U+1D8E", "U+1E01", "U+1E03", "U+1E05", "U+1E07", "U+1E09", "U+1E0B",
    "U+1E0D", "U+1E0F", "U+1E11", "U+1E13", "U+1E15", "U+1E17", "U+1E19",
    "U+1E1B", "U+1E1D", "U+1E1F", "U+1E21", "U+1E23", "U+1E25", "U+1E27",
    "U+1E29", "U+1E2B", "U+1E2D", "U+1E2F", "U+1E31", "U+1E33", "U+1E35",
    "U+1E37", "U+1E39", "U+1E3B", "U+1E3D", "U+1E3F", "U+1E41", "U+1E43",
    "U+1E45", "U+1E47", "U+1E49", "U+1E4B", "U+1E4D", "U+1E4F", "U+1E51",
    "U+1E53", "U+1E55", "U+1E57", "U+1E59", "U+1E5B", "U+1E5D", "U+1E5F",
    "U+1E61", "U+1E63", "U+1E65", "U+1E67", "U+1E69", "U+1E6B", "U+1E6D",
    "U+1E6F", "U+1E71", "U+1E73", "U+1E75", "U+1E77", "U+1E79", "U+1E7B",
    "U+1E7D", "U+1E7F", "U+1E81", "U+1E83", "U+1E85", "U+1E87", "U+1E89",
    "U+1E8B", "U+1E8D", "U+1E8F", "U+1E91", "U+1E93", "U+1E95", "U+1EA1",
    "U+1EA3", "U+1EA5", "U+1EA7", "U+1EA9", "U+1EAB", "U+1EAD", "U+1EAF",
    "U+1EB1", "U+1EB3", "U+1EB5", "U+1EB7", "U+1EB9", "U+1EBB", "U+1EBD",
    "U+1EBF", "U+1EC1", "U+1EC3", "U+1EC5", "U+1EC7", "U+1EC9", "U+1ECB",
    "U+1ECD", "U+1ECF", "U+1ED1", "U+1ED3", "U+1ED5", "U+1ED7", "U+1ED9",
    "U+1EDB", "U+1EDD", "U+1EDF", "U+1EE1", "U+1EE3", "U+1EE5", "U+1EE7",
    "U+1EE9", "U+1EEB", "U+1EED", "U+1EEF", "U+1EF1", "U+1EF3", "U+1EF5",
    "U+1EF7", "U+1EF9", "U+1EFB", "U+1EFD", "U+1EFF", "U+1F00", "U+1F01",
    "U+1F02", "U+1F03", "U+1F04", "U+1F05", "U+1F06", "U+1F07", "U+1F10",
    "U+1F11", "U+1F12", "U+1F13", "U+1F14", "U+1F15", "U+1F20", "U+1F21",
    "U+1F22", "U+1F23", "U+1F24", "U+1F25", "U+1F26", "U+1F27", "U+1F30",
    "U+1F31", "U+1F32", "U+1F33", "U+1F34", "U+1F35", "U+1F36", "U+1F37",
    "U+1F40", "U+1F41", "U+1F42", "U+1F43", "U+1F44", "U+1F45", "U+1F51",
    "U+1F53", "U+1F55", "U+1F57", "U+1F60", "U+1F61", "U+1F62", "U+1F63",
    "U+1F64", "U+1F65", "U+1F66", "U+1F67", "U+1F70", "U+1F71", "U+1F72",
    "U+1F73", "U+1F74", "U+1F75", "U+1F76", "U+1F77", "U+1F78", "U+1F79",
    "U+1F7A", "U+1F7B", "U+1F7C", "U+1F7D", "U+1F80", "U+1F81", "U+1F82",
    "U+1F83", "U+1F84", "U+1F85", "U+1F86", "U+1F87", "U+1F90", "U+1F91",
    "U+1F92", "U+1F93", "U+1F94", "U+1F95", "U+1F96", "U+1F97", "U+1FA0",
    "U+1FA1", "U+1FA2", "U+1FA3", "U+1FA4", "U+1FA5", "U+1FA6", "U+1FA7",
    "U+1FB0", "U+1FB1", "U+1FB3", "U+1FC3", "U+1FD0", "U+1FD1", "U+1FE0",
    "U+1FE1", "U+1FE5", "U+1FF3", "U+214E", "U+2184", "U+2C30", "U+2C31",
    "U+2C32", "U+2C33", "U+2C34", "U+2C35", "U+2C36", "U+2C37", "U+2C38",
    "U+2C39", "U+2C3A", "U+2C3B", "U+2C3C", "U+2C3D", "U+2C3E", "U+2C3F",
    "U+2C40", "U+2C41", "U+2C42", "U+2C43", "U+2C44", "U+2C45", "U+2C46",
    "U+2C47", "U+2C48", "U+2C49", "U+2C4A", "U+2C4B", "U+2C4C", "U+2C4D",
    "U+2C4E", "U+2C4F", "U+2C50", "U+2C51", "U+2C52", "U+2C53", "U+2C54",
    "U+2C55", "U+2C56", "U+2C57", "U+2C58", "U+2C59", "U+2C5A", "U+2C5B",
    "U+2C5C", "U+2C5D", "U+2C5E", "U+2C5F", "U+2C61", "U+2C65", "U+2C66",
    "U+2C68", "U+2C6A", "U+2C6C", "U+2C73", "U+2C76", "U+2C81", "U+2C83",
    "U+2C85", "U+2C87", "U+2C89", "U+2C8B", "U+2C8D", "U+2C8F", "U+2C91",
    "U+2C93", "U+2C95", "U+2C97", "U+2C99", "U+2C9B", "U+2C9D", "U+2C9F",
    "U+2CA1", "U+2CA3", "U+2CA5", "U+2CA7", "U+2CA9", "U+2CAB", "U+2CAD",
    "U+2CAF", "U+2CB1", "U+2CB3", "U+2CB5", "U+2CB7", "U+2CB9", "U+2CBB",
    "U+2CBD", "U+2CBF", "U+2CC1", "U+2CC3", "U+2CC5", "U+2CC7", "U+2CC9",
    "U+2CCB", "U+2CCD", "U+2CCF", "U+2CD1", "U+2CD3", "U+2CD5", "U+2CD7",
    "U+2CD9", "U+2CDB", "U+2CDD", "U+2CDF", "U+2CE1", "U+2CE3", "U+2CEC",
    "U+2CEE", "U+2CF3", "U+2D00", "U+2D01", "U+2D02", "U+2D03", "U+2D04",
    "U+2D05", "U+2D06", "U+2D07", "U+2D08", "U+2D09", "U+2D0A", "U+2D0B",
    "U+2D0C", "U+2D0D", "U+2D0E", "U+2D0F", "U+2D10", "U+2D11", "U+2D12",
    "U+2D13", "U+2D14", "U+2D15", "U+2D16", "U+2D17", "U+2D18", "U+2D19",
    "U+2D1A", "U+2D1B", "U+2D1C", "U+2D1D", "U+2D1E", "U+2D1F", "U+2D20",
    "U+2D21", "U+2D22", "U+2D23", "U+2D24", "U+2D25", "U+2D27", "U+2D2D",
    "U+A641", "U+A643", "U+A645", "U+A647", "U+A649", "U+A64B", "U+A64D",
    "U+A64F", "U+A651", "U+A653", "U+A655", "U+A657", "U+A659", "U+A65B",
    "U+A65D", "U+A65F", "U+A661", "U+A663", "U+A665", "U+A667", "U+A669",
    "U+A66B", "U+A66D", "U+A681", "U+A683", "U+A685", "U+A687", "U+A689",
    "U+A68B", "U+A68D", "U+A68F", "U+A691", "U+A693", "U+A695", "U+A697",
    "U+A699", "U+A69B", "U+A723", "U+A725", "U+A727", "U+A729", "U+A72B",
    "U+A72D", "U+A72F", "U+A733", "U+A735", "U+A737", "U+A739", "U+A73B",
    "U+A73D", "U+A73F", "U+A741", "U+A743", "U+A745", "U+A747", "U+A749",
    "U+A74B", "U+A74D", "U+A74F", "U+A751", "U+A753", "U+A755", "U+A757",
    "U+A759", "U+A75B", "U+A75D", "U+A75F", "U+A761", "U+A763", "U+A765",
    "U+A767", "U+A769", "U+A76B", "U+A76D", "U+A76F", "U+A77A", "U+A77C",
    "U+A77F", "U+A781", "U+A783", "U+A785", "U+A787", "U+A78C", "U+A791",
    "U+A793", "U+A794", "U+A797", "U+A799", "U+A79B", "U+A79D", "U+A79F",
    "U+A7A1", "U+A7A3", "U+A7A5", "U+A7A7", "U+A7A9", "U+A7B5", "U+A7B7",
    "U+A7B9", "U+A7BB", "U+A7BD", "U+A7BF", "U+A7C1", "U+A7C3", "U+A7C8",
    "U+A7CA", "U+A7D1", "U+A7D7", "U+A7D9", "U+A7F6", "U+AB53", "U+AB70",
    "U+AB71", "U+AB72", "U+AB73", "U+AB74", "U+AB75", "U+AB76", "U+AB77",
    "U+AB78", "U+AB79", "U+AB7A", "U+AB7B", "U+AB7C", "U+AB7D", "U+AB7E",
    "U+AB7F", "U+AB80", "U+AB81", "U+AB82", "U+AB83", "U+AB84", "U+AB85",
    "U+AB86", "U+AB87", "U+AB88", "U+AB89", "U+AB8A", "U+AB8B", "U+AB8C",
    "U+AB8D", "U+AB8E", "U+AB8F", "U+AB90", "U+AB91", "U+AB92", "U+AB93",
    "U+AB94", "U+AB95", "U+AB96", "U+AB97", "U+AB98", "U+AB99", "U+AB9A",
    "U+AB9B", "U+AB9C", "U+AB9D", "U+AB9E", "U+AB9F", "U+ABA0", "U+ABA1",
    "U+ABA2", "U+ABA3", "U+ABA4", "U+ABA5", "U+ABA6", "U+ABA7", "U+ABA8",
    "U+ABA9", "U+ABAA", "U+ABAB", "U+ABAC", "U+ABAD", "U+ABAE", "U+ABAF",
    "U+ABB0", "U+ABB1", "U+ABB2", "U+ABB3", "U+ABB4", "U+ABB5", "U+ABB6",
    "U+ABB7", "U+ABB8", "U+ABB9", "U+ABBA", "U+ABBB", "U+ABBC", "U+ABBD",
    "U+ABBE", "U+ABBF", "U+FF41", "U+FF42", "U+FF43", "U+FF44", "U+FF45",
    "U+FF46", "U+FF47", "U+FF48", "U+FF49", "U+FF4A", "U+FF4B", "U+FF4C",
    "U+FF4D", "U+FF4E", "U+FF4F", "U+FF50", "U+FF51", "U+FF52", "U+FF53",
    "U+FF54", "U+FF55", "U+FF56", "U+FF57", "U+FF58", "U+FF59", "U+FF5A",
    "U+10428", "U+10429", "U+1042A", "U+1042B", "U+1042C", "U+1042D",
    "U+1042E", "U+1042F", "U+10430", "U+10431", "U+10432", "U+10433",
    "U+10434", "U+10435", "U+10436", "U+10437", "U+10438", "U+10439",
    "U+1043A", "U+1043B", "U+1043C", "U+1043D", "U+1043E", "U+1043F",
    "U+10440", "U+10441", "U+10442", "U+10443", "U+10444", "U+10445",
    "U+10446", "U+10447", "U+10448", "U+10449", "U+1044A", "U+1044B",
    "U+1044C", "U+1044D", "U+1044E", "U+1044F", "U+104D8", "U+104D9",
    "U+104DA", "U+104DB", "U+104DC", "U+104DD", "U+104DE", "U+104DF",
    "U+104E0", "U+104E1", "U+104E2", "U+104E3", "U+104E4", "U+104E5",
    "U+104E6", "U+104E7", "U+104E8", "U+104E9", "U+104EA", "U+104EB",
    "U+104EC", "U+104ED", "U+104EE", "U+104EF", "U+104F0", "U+104F1",
    "U+104F2", "U+104F3", "U+104F4", "U+104F5", "U+104F6", "U+104F7",
    "U+104F8", "U+104F9", "U+104FA", "U+104FB", "U+10597", "U+10598",
    "U+10599", "U+1059A", "U+1059B", "U+1059C", "U+1059D", "U+1059E",
    "U+1059F", "U+105A0", "U+105A1", "U+105A3", "U+105A4", "U+105A5",
    "U+105A6", "U+105A7", "U+105A8", "U+105A9", "U+105AA", "U+105AB",
    "U+105AC", "U+105AD", "U+105AE", "U+105AF", "U+105B0", "U+105B1",
    "U+105B3", "U+105B4", "U+105B5", "U+105B6", "U+105B7", "U+105B8",
    "U+105B9", "U+105BB", "U+105BC", "U+10CC0", "U+10CC1", "U+10CC2",
    "U+10CC3", "U+10CC4", "U+10CC5", "U+10CC6", "U+10CC7", "U+10CC8",
    "U+10CC9", "U+10CCA", "U+10CCB", "U+10CCC", "U+10CCD", "U+10CCE",
    "U+10CCF", "U+10CD0", "U+10CD1", "U+10CD2", "U+10CD3", "U+10CD4",
    "U+10CD5", "U+10CD6", "U+10CD7", "U+10CD8", "U+10CD9", "U+10CDA",
    "U+10CDB", "U+10CDC", "U+10CDD", "U+10CDE", "U+10CDF", "U+10CE0",
    "U+10CE1", "U+10CE2", "U+10CE3", "U+10CE4", "U+10CE5", "U+10CE6",
    "U+10CE7", "U+10CE8", "U+10CE9", "U+10CEA", "U+10CEB", "U+10CEC",
    "U+10CED", "U+10CEE", "U+10CEF", "U+10CF0", "U+10CF1", "U+10CF2",
    "U+118C0", "U+118C1", "U+118C2", "U+118C3", "U+118C4", "U+118C5",
    "U+118C6", "U+118C7", "U+118C8", "U+118C9", "U+118CA", "U+118CB",
    "U+118CC", "U+118CD", "U+118CE", "U+118CF", "U+118D0", "U+118D1",
    "U+118D2", "U+118D3", "U+118D4", "U+118D5", "U+118D6", "U+118D7",
    "U+118D8", "U+118D9", "U+118DA", "U+118DB", "U+118DC", "U+118DD",
    "U+118DE", "U+118DF", "U+16E60", "U+16E61", "U+16E62", "U+16E63",
    "U+16E64", "U+16E65", "U+16E66", "U+16E67", "U+16E68", "U+16E69",
    "U+16E6A", "U+16E6B", "U+16E6C", "U+16E6D", "U+16E6E", "U+16E6F",
    "U+16E70", "U+16E71", "U+16E72", "U+16E73", "U+16E74", "U+16E75",
    "U+16E76", "U+16E77", "U+16E78", "U+16E79", "U+16E7A", "U+16E7B",
    "U+16E7C", "U+16E7D", "U+16E7E", "U+16E7F", "U+1E922", "U+1E923",
    "U+1E924", "U+1E925", "U+1E926", "U+1E927", "U+1E928", "U+1E929",
    "U+1E92A", "U+1E92B", "U+1E92C", "U+1E92D", "U+1E92E", "U+1E92F",
    "U+1E930", "U+1E931", "U+1E932", "U+1E933", "U+1E934", "U+1E935",
    "U+1E936", "U+1E937", "U+1E938", "U+1E939", "U+1E93A", "U+1E93B",
    "U+1E93C", "U+1E93D", "U+1E93E", "U+1E93F", "U+1E940", "U+1E941",
    "U+1E942", "U+1E943"}

IsLower(c) == c \in LowerLetters

\* The length of the run of uppercase letters s starts with.
RunLen(s) ==
    IF \E i \in DOMAIN s : ~IsUpper(s[i])
    THEN (CHOOSE i \in DOMAIN s : ~IsUpper(s[i]) /\ \A j \in 1..(i - 1) : IsUpper(s[j])) - 1
    ELSE Len(s)

\* A run of two or more uppercase letters followed by one or more lowercase
\* letters.
IsAcronymWord(s) ==
    /\ RunLen(s) >= 2
    /\ RunLen(s) < Len(s)
    /\ \A i \in (RunLen(s) + 1)..Len(s) : IsLower(s[i])

\* C10 as stated: for an identifier made of a run of two or more uppercase
\* letters followed by one or more lowercase letters, the derived key is the
\* run without its last letter in lowercase, one underscore, then the run's
\* last letter in lowercase followed by the lowercase letters, each once.
C10_AcronymRule ==
    (op = "camelCaseToUnderScore" /\ IsAcronymWord(str)) =>
        key = ToLowerStr(SubSeq(str, 1, RunLen(str) - 1)) \o <<"_">>
                \o ToLowerStr(SubSeq(str, RunLen(str), Len(str)))

Separators == {" ", "-"}

\* C11 as stated: the key derived from an identifier whose spaces and
\* hyphens are internal contains no space and no hyphen.
C11_SeparatorsBecomeUnderscores ==
    (/\ op = "camelCaseToUnderScore"
     /\ str[1] \notin Separators /\ str[Len(str)] \notin Separators)
        => \A i \in DOMAIN key : key[i] \notin Separators

\* An identifier of runes: it holds no byte that is part of no rune, nor
\* U+FFFD.
IsText(s) == \A i \in DOMAIN s : ~IsByte(s[i]) /\ s[i] # RuneError

\* No case transitions: what is not a digit is an upper case letter
\* throughout, or a lower case letter throughout.
AllUpper(s) == \A i \in DOMAIN s : IsUpper(s[i]) \/ IsDigit(s[i])
AllLower(s) == \A i \in DOMAIN s : IsLower(s[i]) \/ IsDigit(s[i])

\* C12 as stated: the key derived from an identifier contains no uppercase
\* letter, and an identifier with no case transitions (all lowercase, or all
\* uppercase) derives to itself lowercased, nothing added, dropped or
\* repeated.
C12_KeyIsLowercase ==
    (op = "camelCaseToUnderScore" /\ IsText(str)) =>
        /\ \A i \in DOMAIN key : ~IsUpper(key[i])
        /\ (AllUpper(str) \/ AllLower(str)) => key = ToLowerStr(str)

IsSuffix(x, y) == Len(x) <= Len(y) /\ SubSeq(y, Len(y) - Len(x) + 1, Len(y)) = x
Doubled(s) == \E i \in 1..(Len(s) - 1) : s[i] = "_" /\ s[i + 1] = "_"
AsUnderscores(s) == [i \in DOMAIN s |-> IF s[i] \in Separators THEN "_" ELSE s[i]]
DerivedFrom(s) == camelCaseToUnderScore(s).buf

\* C13 as stated, a space or a hyphen counting as the underscore it stands
\* for in the identifier and in the key alike: at each lowercase-to-uppercase
\* transition the key holds the lowercase letter, exactly one underscore,
\* then what the rest of the identifier (from the uppercase letter on)
\* derives to; no underscore is put at the start of the key nor after an
\* underscore of the identifier, and the key has a doubled underscore only
\* where the identifier has one.
C13_OneUnderscorePerTransition ==
    (op = "camelCaseToUnderScore" /\ IsText(str)) =>
        /\ \A i \in 1..(Len(str) - 1) :
              (IsLower(str[i]) /\ IsUpper(str[i + 1])) =>
                  IsSuffix(<<str[i], "_">> \o DerivedFrom(SubSeq(str, i + 1, Len(str))), key)
        /\ IsUpper(str[1]) => key[1] = ToLower(str[1])
        /\ \A i \in 1..(Len(str) - 1) :
              (/\ AsUnderscores(str)[i] = "_" /\ IsUpper(str[i + 1])
               /\ (i = 1 \/ IsLower(str[i - 1]))) =>
                  IsSuffix((IF i = 1 THEN <<>> ELSE <<str[i - 1]>>) \o <<"_">>
                             \o DerivedFrom(SubSeq(str, i + 1, Len(str))), key)
        /\ Doubled(AsUnderscores(key)) => Doubled(AsUnderscores(str))

(***************************************************************************)
(* The member-metadata specification: Result.Decode into a struct with one  *)
(* string member TheName under each form of the `facebook` tag, from        *)
(* Objects over the override key and the derived key.                       *)
(***************************************************************************)
KeyTheName == <<"t", "h", "e", "_", "n", "a", "m", "e">>
NameTheName == <<"T", "h", "e", "N", "a", "m", "e">>

\* The forms of the tag, with the key and the requiredness each stands for.
TagCases ==
    { [tag |-> <<>>, key |-> KeyTheName, required |-> FALSE],
      [tag |-> KeyName, key |-> KeyName, required |-> FALSE],
      [tag |-> KeyName \o TagRequired, key |-> KeyName, required |-> TRUE],
      [tag |-> TagRequired, key |-> KeyTheName, required |-> TRUE],
      [tag |-> <<"N">>, key |-> <<"N">>, required |-> FALSE],
      [tag |-> <<"N">> \o TagRequired, key |-> <<"N">>, required |-> TRUE] }

TagOptions == {StrV(<<"A", "d", "a">>), One}

InitTag ==
    /\ arch = "amd64"
    /\ order = 0
    /\ \E c \in TagCases :
         /\ typ = PtrT(StructT(<<Member(NameTheName, c.tag, TypeOf("String"))>>))
         /\ pre \in {PtrV(<<ZeroValue(typ.elem)>>), PtrV(<<Filled(typ.elem)>>)}
    /\ \E f \in [{KeyName, KeyTheName, <<"N">>, <<"n">>} -> TagOptions \cup {Invalid}] :
         res = Obj([k \in {x \in DOMAIN f : f[x] # Invalid} |-> f[k]])
    /\ out = pre
    /\ err = NoErr
    /\ op = "init"
    /\ alias = {} /\ LibIdle
    /\ fields = <<>> /\ got = Idle
    /\ str = <<>> /\ key = <<>>

NextTag == CallDecode

SpecTag == InitTag /\ [][NextTag]_vars

TagCase == CHOOSE c \in TagCases : c.tag = typ.elem.fields[1].tag

\* C14: the member is looked up under the tag's name verbatim if the tag has
\* one, else under the derived name, whatever other keys the Object holds;
\* if that key is absent the decode fails with the missing-field error when
\* the tag carries the required marker, else it succeeds and leaves the
\* member as it was.
C14_TagDecidesKey ==
    op = "Decode" =>
        LET c == TagCase
        IN /\ c.key = KeyTheName => c.key = camelCaseToUnderScore(NameTheName).buf
           /\ IF c.key \in DOMAIN res.val
              THEN IF res.val[c.key].kind = "string"
                   THEN err = NoErr /\ OutS.val[1] = res.val[c.key]
                   ELSE /\ err = Errorf("field '%v' is not a string in result.", <<c.key>>)
                        /\ out = pre
              ELSE /\ out = pre
                   /\ err = IF c.required THEN MissingField(<<>>, c.key) ELSE NoErr

C14_Witness ==
    /\ op = "Decode"
    /\ TagCase.tag = KeyName \o TagRequired
    /\ KeyName \notin DOMAIN res.val /\ KeyTheName \in DOMAIN res.val
    /\ PreS.val[1] # ZeroValue(TypeOf("String"))
    /\ err = MissingField(<<>>, KeyName) /\ out = pre

(***************************************************************************)
(* The container specification: DecodeField("n", &x) for x a map, a slice  *)
(* or an array, of interface{} or of int8 elements, holding what an        *)
(* earlier call left, from an Object whose "n" is an Array or an Object of *)
(* nested elements.                                                        *)
(***************************************************************************)
ArrCap == 2          \* the length of the array targets
MaxElems == 3        \* longest source Array given to a container target

KeyA == <<"a">>
KeyOld == <<"o", "l", "d">>
NumOne == NumberV(<<"1">>)
FloatTwo == FloatV(Pos(<<2>>))

\* The elements of a source Array and the values of a source Object.
Elements ==
    { NilV, NumOne, FloatTwo, StrV(<<"x">>),
      SliceV(<<NilV>>), Obj(Obj1(KeyA, NumOne)), SliceV(<<Obj(Obj1(KeyA, NilV))>>) }

ContainerSources ==
    {SliceV(q) : q \in SeqsUpTo(Elements, MaxElems)}
      \cup {Obj([k \in {x \in DOMAIN f : f[x] # Invalid} |-> f[k]]) :
               f \in [{KeyA, KeyOld} -> Elements \cup {Invalid}]}
      \cup {StrV(<<"x">>)}

ContainerTypes ==
    { MapT(TypeOf("String"), InterfaceT), SliceT(InterfaceT), ArrayT(ArrCap, InterfaceT),
      MapT(TypeOf("String"), TypeOf("Int8")), SliceT(TypeOf("Int8")),
      ArrayT(ArrCap, TypeOf("Int8")),
      MapT(TypeOf("String"), PtrT(TypeOf("Int8"))), MapT(TypeOf("Int"), TypeOf("Int8")) }

InitContainer ==
    /\ arch = "amd64"
    /\ order \in Orders
    /\ \E t \in ContainerTypes : typ = PtrT(t) /\ pre = PtrV(<<Filled(t)>>)
    /\ \E src \in ContainerSources : res = Obj(Obj1(KeyN, src))
    /\ out = pre
    /\ err = NoErr
    /\ op = "init"
    /\ alias = {} /\ LibIdle
    /\ fields = <<KeyN>> /\ got = Idle
    /\ str = <<>> /\ key = <<>>

NextContainer == CallDecodeField

SpecContainer == InitContainer /\ [][NextContainer]_vars

(***************************************************************************)
(* Claims about container targets.                                         *)
(***************************************************************************)
ContainerT == typ.elem
Held == out.val[1]
HeldBefore == pre.val[1]
Untyped == ContainerT.elem.kind = "Interface"

\* C15: an Object decoded into a map[string]interface{}, and an Array
\* decoded into a []interface{} or into an array of interface{} that is long
\* enough, succeed and leave the target equal to the source, nested Arrays,
\* Objects and Nulls included; the array target in the slots the source has.
C15_UntypedReproducesSource ==
    (op = "DecodeField" /\ Untyped) =>
        /\ (ContainerT.kind = "Map" /\ Source.kind = "map") => err = NoErr /\ Held = Source
        /\ (ContainerT.kind = "Slice" /\ Source.kind = "slice") => err = NoErr /\ Held = Source
        /\ (ContainerT.kind = "Array" /\ Source.kind = "slice"
              /\ Len(Source.val) <= ContainerT.len) =>
               /\ err = NoErr
               /\ \A i \in 1..Len(Source.val) : Held.val[i] = Source.val[i]

C15_Witness ==
    /\ op = "DecodeField" /\ err = NoErr
    /\ ContainerT = MapT(TypeOf("String"), InterfaceT)
    /\ Source = Obj(Obj2(KeyA, SliceV(<<Obj(Obj1(KeyA, NilV))>>), KeyOld, NilV))
    /\ Held = Source

\* What an element decodes to in an int8 slot: a Null leaves the zero value
\* of the fresh slot.
AsInt8(v) ==
    CASE v = NilV -> IntV(Zero)
      [] v = NumOne -> IntV(Pos(<<1>>))
      [] v = FloatTwo -> IntV(Pos(<<2>>))
      [] OTHER -> Invalid
Decoded(t, v) ==
    CASE t.kind = "Interface" -> v
      [] t.kind = "Ptr" -> IF AsInt8(v) = Invalid THEN Invalid ELSE PtrV(<<AsInt8(v)>>)
      [] OTHER -> AsInt8(v)

LengthExceeded(n, l) ==
    Errorf("cannot copy all field '%v' values to struct. expected len is %v. actual len is %v.",
           <<KeyN, Itoa(n), Itoa(l)>>)

\* C16: an array target of length N given a source Array of length L: if
\* L > N the call fails with the length error and the array is as before; if
\* L <= N the slots after the L-th keep their values, and the call succeeds
\* when every element decodes, the first L slots then holding the decoded
\* elements.
C16_ArrayLength ==
    (op = "DecodeField" /\ ContainerT.kind = "Array" /\ Source.kind = "slice") =>
        IF Len(Source.val) > ContainerT.len
        THEN err = LengthExceeded(ContainerT.len, Len(Source.val)) /\ out = pre
        ELSE /\ \A i \in (Len(Source.val) + 1)..ContainerT.len : Held.val[i] = HeldBefore.val[i]
             /\ (\A i \in 1..Len(Source.val) : Decoded(ContainerT.elem, Source.val[i]) # Invalid)
                   => err = NoErr
             /\ err = NoErr =>
                   \A i \in 1..Len(Source.val) :
                       Held.val[i] = Decoded(ContainerT.elem, Source.val[i])

C16_Witness ==
    /\ op = "DecodeField" /\ err = NoErr
    /\ ContainerT = ArrayT(ArrCap, TypeOf("Int8"))
    /\ Source = SliceV(<<FloatTwo>>)
    /\ Held.val[1] = IntV(Pos(<<2>>))
    /\ Held.val[ArrCap] = IntV(Seven)

NonStringKey ==
    Errorf("field '%v' in struct is a map with non-string key type. it's not allowed.", <<KeyN>>)

\* C20: a map target given an Object: if its key type is not string the call
\* fails with the non-string-key error and the map is as before, whatever
\* the Object holds; else, for an element type other than interface{}, the
\* call succeeds when every value decodes, the map then holding under every
\* key of the Object the element decoded from its value and under its other
\* keys what it held, and an error names the path extended by a key of the
\* Object.
C20_MapTarget ==
    (op = "DecodeField" /\ ContainerT.kind = "Map" /\ Source.kind = "map") =>
        IF ContainerT.key.kind # "String"
        THEN err = NonStringKey /\ out = pre
        ELSE ~Untyped =>
             /\ (\A k \in DOMAIN Source.val : Decoded(ContainerT.elem, Source.val[k]) # Invalid)
                   => err = NoErr
             /\ err = NoErr =>
                   /\ DOMAIN Held.val = (DOMAIN HeldBefore.val) \cup (DOMAIN Source.val)
                   /\ \A k \in DOMAIN Source.val :
                         Held.val[k] = Decoded(ContainerT.elem, Source.val[k])
                   /\ \A k \in (DOMAIN HeldBefore.val) \ (DOMAIN Source.val) :
                         Held.val[k] = HeldBefore.val[k]
             /\ err # NoErr =>
                   \E k \in DOMAIN Source.val :
                       /\ Decoded(ContainerT.elem, Source.val[k]) = Invalid
                       /\ err.v[1] = KeyN \o <<".">> \o k

C20_Witness ==
    /\ op = "DecodeField" /\ err = NoErr
    /\ ContainerT = MapT(TypeOf("String"), TypeOf("Int8"))
    /\ Source = Obj(Obj1(KeyA, NumOne))
    /\ Held = MapV(Obj2(KeyA, IntV(Pos(<<1>>)), KeyOld, IntV(Seven)))

(***************************************************************************)
(* The pointer-member specification: Result.Decode into a struct with two  *)
(* pointer members P and Q, each nil or allocated, from Objects in which   *)
(* each of the keys p and q is absent, Null or holds a value.              *)
(***************************************************************************)
KeyP == <<"p">>
KeyQ == <<"q">>

PointeeTypes ==
    { TypeOf("Int8"), TypeOf("String"), SliceT(TypeOf("Int8")),
      StructT(<<Member(<<"X">>, <<>>, TypeOf("Int8"))>>) }

PointeeSources ==
    { NilV, One, StrV(<<"A", "d", "a">>), SliceV(<<One>>), Obj(Obj1(<<"x">>, One)) }

PtrStruct(t) == StructT(<<Member(<<"P">>, <<>>, PtrT(t)), Member(<<"Q">>, <<>>, PtrT(t))>>)

InitPtr ==
    /\ arch = "amd64"
    /\ order = 0
    /\ \E t \in PointeeTypes :
         /\ typ = PtrT(PtrStruct(t))
         /\ \E p, q \in {PtrV(<<>>), PtrV(<<Filled(t)>>)} : pre = PtrV(<<StructV(<<p, q>>)>>)
    /\ \E f \in [{KeyP, KeyQ} -> PointeeSources \cup {Invalid}] :
         res = Obj([k \in {x \in DOMAIN f : f[x] # Invalid} |-> f[k]])
    /\ out = pre
    /\ err = NoErr
    /\ op = "init"
    /\ alias = {} /\ LibIdle
    /\ fields = <<>> /\ got = Idle
    /\ str = <<>> /\ key = <<>>

NextPtr == CallDecode

SpecPtr == InitPtr /\ [][NextPtr]_vars

\* C17 as stated: a pointer member the decoder comes to is nil afterwards if
\* its key is absent from the Object, and is allocated afterwards if its key
\* is present, a Null value included.
C17_AbsentClearsElseAllocates ==
    op = "Decode" =>
        \A i \in DOMAIN Members :
            (i = 1 \/ err = NoErr) =>
                IF Present(i) THEN OutS.val[i] # PtrV(<<>>) ELSE OutS.val[i] = PtrV(<<>>)

(***************************************************************************)
(* The self-decoding specification: Result.Decode into a struct with one   *)
(* member When, of a type whose pointer implements json.Unmarshaler or of  *)
(* a pointer to it, from Objects in which the key when is absent or holds  *)
(* a value of any kind.                                                    *)
(***************************************************************************)
HookSources ==
    Elements \cup {BoolV(TRUE), StrV(<<"t">>), StrV(<<"<", "\"">>), StrV(<<"a", "\f", "b">>),
                   NumberV(<<"x">>), NumberV(<<"<", "a">>), NumberV(<<>>)}
        \cup {SliceV(q) : q \in SeqsUpTo(Elements \cup {NumberV(<<"+", "1">>)}, MaxArrLen)}

HookStruct(t) == StructT(<<Member(<<"W", "h", "e", "n">>, KeyWhen, t)>>)

InitHook ==
    /\ arch = "amd64"
    /\ order = 0
    /\ \E t \in {HookT, PtrT(HookT), PtrT(PtrT(HookT))} :
         /\ typ = PtrT(HookStruct(t))
         /\ pre \in {PtrV(<<ZeroValue(typ.elem)>>), PtrV(<<Filled(typ.elem)>>)}
    /\ \/ res = Obj(<<>>)
       \/ \E src \in HookSources : res = Obj(Obj1(KeyWhen, src))
    /\ out = pre
    /\ err = NoErr
    /\ op = "init"
    /\ alias = {} /\ LibIdle
    /\ fields = <<>> /\ got = Idle
    /\ str = <<>> /\ key = <<>>

NextHook == CallDecode

SpecHook == InitHook /\ [][NextHook]_vars

\* The self-decoding value of the member When after the call.
RECURSIVE Pointee(_)
Pointee(v) == IF v.kind = "ptr" /\ v.val # <<>> THEN Pointee(v.val[1]) ELSE v
HookHeld == Pointee(OutS.val[1])

\* The value under the key when has a canonical text: json.Marshal fails on
\* a numeric lexeme that is not a JSON number, and decodeField then returns
\* the error of json.Marshal without calling the hook.
HasCanonicalText == Marshal(res.val[KeyWhen]).err = NoErr

\* The hook is called on a nil receiver: the member is a pointer to a pointer
\* to the self-decoding type and held no value before the call.
HookReceiverNil ==
    /\ Members[1].type = PtrT(PtrT(HookT))
    /\ (PreS.val[1] = PtrV(<<>>) \/ PreS.val[1].val[1] = PtrV(<<>>))

\* The result d of the hook on the canonical text of the subtree is the
\* result of the call, and what the hook kept is in the member; a hook
\* that has a value to keep and a nil receiver panics, and so does the call.
HookDecided(d) ==
    IF d.err = NoErr /\ HookReceiverNil THEN err = PanicErr
    ELSE err = d.err /\ (d.err = NoErr => OutS.val[1] # PtrV(<<>>) /\ HookHeld = d.v)

\* C21 as stated: whatever the key when holds, a Null included, the call
\* returns what the hook returns on the canonical text of that value, and
\* the member holds what the hook kept.
C21_HookGetsEverySubtree ==
    (op = "Decode" /\ KeyWhen \in DOMAIN res.val /\ HasCanonicalText) =>
        HookDecided(UnmarshalJSON(Marshal(res.val[KeyWhen]).data))

(***************************************************************************)
(* The twin-member specification: Result.Decode into a struct with two     *)
(* string members without tag, whose identifiers are drawn from ones that  *)
(* differ in capitalization only, from Objects over the keys they derive   *)
(* to.                                                                     *)
(***************************************************************************)
TwinNames ==
    { <<"I", "D">>, <<"I", "d">>,
      <<"F", "o", "o", "B", "a", "r">>, <<"F", "o", "o", "b", "a", "r">>,
      <<"F", "o", "o", "B", "A", "R">> }

TwinKeys == { <<"i", "d">>, <<"f", "o", "o", "_", "b", "a", "r">>, <<"f", "o", "o", "b", "a", "r">> }

TwinValues == {StrV(<<"a">>), StrV(<<"b">>)}

InitTwin ==
    /\ arch = "amd64"
    /\ order = 0
    /\ \E n1, n2 \in TwinNames :
         /\ n1 # n2
         /\ typ = PtrT(StructT(<<Member(n1, <<>>, TypeOf("String")),
                                 Member(n2, <<>>, TypeOf("String"))>>))
    /\ pre \in {PtrV(<<ZeroValue(typ.elem)>>), PtrV(<<Filled(typ.elem)>>)}
    /\ \E f \in [TwinKeys -> TwinValues \cup {Invalid}] :
         res = Obj([k \in {x \in DOMAIN f : f[x] # Invalid} |-> f[k]])
    /\ out = pre
    /\ err = NoErr
    /\ op = "init"
    /\ alias = {} /\ LibIdle
    /\ fields = <<>> /\ got = Idle
    /\ str = <<>> /\ key = <<>>

NextTwin == CallDecode

SpecTwin == InitTwin /\ [][NextTwin]_vars

SameButCase == ToLowerStr(Members[1].name) = ToLowerStr(Members[2].name)

\* The i-th member holds the value under the key k if the Object has it, and
\* what it held before otherwise.
PopulatedFrom(i, k) ==
    OutS.val[i] = IF k \in DOMAIN res.val THEN res.val[k] ELSE PreS.val[i]

\* C22 as stated: two members whose identifiers differ in capitalization
\* only are populated from the value under one and the same key.
C22_CapitalizationSameKey ==
    (op = "Decode" /\ SameButCase) =>
        \E k \in TwinKeys : PopulatedFrom(1, k) /\ PopulatedFrom(2, k)

(***************************************************************************)
(* The sharing specification: DecodeField("n", &x) for x a container or a  *)
(* struct with members of type map[string]interface{} or []interface{}    *)
(* (decoded by Result.decode, the loop of Decode), and then, after a call  *)
(* that returned (with an error or without), one assignment by the caller  *)
(* to an element of a map, a slice or an array reached from x.  Two        *)
(* members looked up under one key hold one and the same container of the  *)
(* Result.                                                                 *)
(***************************************************************************)
ShareTypes ==
    ContainerTypes
      \cup { StructT(<<Member(<<"A">>, <<>>, MapT(TypeOf("String"), InterfaceT))>>),
             StructT(<<Member(<<"A">>, <<>>, MapT(TypeOf("String"), InterfaceT)),
                       Member(<<"O", "l", "d">>, <<>>, TypeOf("Int8"))>>),
             MapT(TypeOf("String"), SliceT(InterfaceT)),
             StructT(<<Member(<<"A">>, <<>>, TypeOf("Chan"))>>),
             StructT(<<Member(<<"A">>, <<>>, MapT(TypeOf("String"), InterfaceT)),
                       Member(<<"B">>, KeyA, MapT(TypeOf("String"), InterfaceT))>>),
             StructT(<<Member(<<"A">>, <<>>, SliceT(InterfaceT)),
                       Member(<<"B">>, KeyA, SliceT(InterfaceT))>>) }

InitShare ==
    /\ arch = "amd64"
    /\ order \in Orders
    /\ \E t \in ShareTypes : typ = PtrT(t) /\ pre = PtrV(<<Filled(t)>>)
    /\ \E src \in ContainerSources : res = Obj(Obj1(KeyN, src))
    /\ out = pre
    /\ err = NoErr
    /\ op = "init"
    /\ alias = {} /\ LibIdle
    /\ fields = <<KeyN>> /\ got = Idle
    /\ str = <<>> /\ key = <<>>

\* The value at the path p below v, and v with the value at p replaced by x.
RECURSIVE Sub(_, _)
Sub(v, p) == IF Len(p) = 0 THEN v ELSE Sub(v.val[Head(p)], Tail(p))

RECURSIVE Upd(_, _, _)
Upd(v, p, x) ==
    IF Len(p) = 0 THEN x ELSE [v EXCEPT !.val[Head(p)] = Upd(@, Tail(p), x)]

RECURSIVE PathPrefix(_, _)
PathPrefix(x, y) ==
    \/ Len(x) = 0
    \/ Len(y) > 0 /\ Head(x) = Head(y) /\ PathPrefix(Tail(x), Tail(y))

\* The elements of the maps, slices and arrays reached from the value v of
\* type t at path: each the path of the element and its type.
RECURSIVE ElemLocs(_, _, _)
ElemLocs(v, t, path) ==
    CASE t.kind = "Ptr" ->
            IF v.val = <<>> THEN {} ELSE ElemLocs(v.val[1], t.elem, Append(path, 1))
      [] t.kind = "Struct" ->
            UNION {ElemLocs(v.val[i], t.fields[i].type, Append(path, i)) : i \in DOMAIN t.fields}
      [] t.kind \in {"Map", "Slice", "Array"} ->
            UNION {{[p |-> Append(path, k), t |-> t.elem]}
                      \cup ElemLocs(v.val[k], t.elem, Append(path, k)) : k \in DOMAIN v.val}
      [] t.kind = "Interface" ->
            IF v.kind = "map" THEN ElemLocs(v, MapT(TypeOf("String"), InterfaceT), path)
            ELSE IF v.kind = "slice" THEN ElemLocs(v, SliceT(InterfaceT), path)
            ELSE {}
      [] OTHER -> {}

\* What the caller assigns to an element of type t.
Assigned(t) == IF t.kind = "Interface" THEN StrV(<<"n", "e", "w">>) ELSE ZeroValue(t)

\* The path p of the target is that of an element inside the shared
\* container a.  The place that holds the container is not inside it: an
\* assignment to that place (a slot of an array, an entry of a map the
\* decoder made) replaces the target's own reference.
Inside(a, p) == Len(a.t) < Len(p) /\ PathPrefix(a.t, p)

\* The path in the Result of the element at the path p of the target, p
\* being inside the shared container a.
SourcePath(a, p) == a.s \o SubSeq(p, Len(a.t) + 1, Len(p))

\* The Result after the assignment of x at the path p of the target: the
\* assignment is to the Result's own container if p is inside a shared one.
ResultAfter(p, x) ==
    IF \E a \in alias : Inside(a, p)
    THEN Upd(res, SourcePath(CHOOSE a \in alias : Inside(a, p), p), x)
    ELSE res

\* The paths of the target that are the element at the path p: p itself,
\* and, p being inside a shared container, the same element in every place
\* of the target that holds a container of the Result around it.
SamePlaces(p) ==
    IF \E a \in alias : Inside(a, p)
    THEN LET q == SourcePath(CHOOSE a \in alias : Inside(a, p), p)
         IN {b.t \o SubSeq(q, Len(b.s) + 1, Len(q)) :
                b \in {c \in alias : Len(c.s) < Len(q) /\ PathPrefix(c.s, q)}}
    ELSE {p}

\* v with the value at every path of P replaced by x.
RECURSIVE UpdAll(_, _, _)
UpdAll(v, P, x) ==
    IF P = {} THEN v
    ELSE UpdAll(Upd(v, CHOOSE p \in P : TRUE, x), P \ {CHOOSE p \in P : TRUE}, x)

\* The caller assigns to an element of a container of the decoded target.
Mutate ==
    /\ op = "DecodeField" /\ err # PanicErr
    /\ \E loc \in ElemLocs(out, typ, <<>>) :
         /\ out' = UpdAll(out, SamePlaces(loc.p), Assigned(loc.t))
         /\ res' = ResultAfter(loc.p, Assigned(loc.t))
    /\ op' = "Mutate"
    /\ UNCHANGED <<arch, order, typ, pre, err, fields, got, str, key, alias>>
    /\ UNCHANGED libvars

NextShare == CallDecodeField \/ Mutate

SpecShare == InitShare /\ [][NextShare]_vars

\* C27 as stated: neither the decode call nor an assignment by the caller to
\* the decoded target changes the Result.
C27_SourceUnchanged == [][res' = res]_vars

(***************************************************************************)
(* The database helpers: GetMySQL and putMySQL (DbPool.go), DbAction and   *)
(* DbTransactionAction (DbUtils.go), buildPager.                           *)
(*                                                                         *)
(* The processes are the callers 1..MaxCallers and, for the caller c, the   *)
(* goroutine MaxCallers + c that its GetMySQL starts.  A channel is the    *)
(* sequence of the connections it buffers; chans[p] is the channel that    *)
(* the process p made, and mySQLPool names the one the package variable    *)
(* refers to, 0 for nil.  The variable is read and written without         *)
(* synchronisation, so every read is a step of its own.  conns[k] is the   *)
(* state of the connection k; ConnOf(g, i) is the one that the goroutine g *)
(* opens in the round i of its loop.                                       *)
(***************************************************************************)
MaxCallers == 3      \* most concurrent callers
MaxPool == 2         \* largest configured maxPoolSize

\* The decoder's variables in the specifications of the database helpers.
DecIdle ==
    /\ arch = "amd64" /\ order = 0
    /\ typ = Idle /\ res = Idle /\ pre = Idle /\ out = Idle /\ err = Idle
    /\ fields = <<>> /\ got = Idle
    /\ str = <<>> /\ key = <<>>
    /\ alias = {}

Callers == 1..MaxCallers
Refills == (MaxCallers + 1)..(2 * MaxCallers)
RefillOf(c) == MaxCallers + c

\* A process: where it is, the channel its receive or send is on, the
\* connection it holds, and the counter i of the goroutine's loop; for a
\* caller of DbTransactionAction also the methods of the transaction it has
\* invoked, the call whose error the variable err holds ("nil" for none),
\* and whether the transaction is committed.
Proc(pc) == [pc |-> pc, ch |-> 0, conn |-> 0, i |-> 0,
             calls |-> <<>>, err |-> "nil", committed |-> FALSE]

\* The connections: one for every round of every goroutine.
Rounds == MaxPool \div 2
ConnIds == 1..(MaxCallers * Rounds)
ConnOf(g, i) == (g - MaxCallers - 1) * Rounds + i + 1

\* len(ch) and cap(ch)
ChanLen(ch) == Len(chans[ch])
ChanCap(ch) == maxPoolSize

InitPool ==
    /\ DecIdle
    /\ op = "init"
    /\ maxPoolSize \in 1..MaxPool
    /\ mySQLPool = 0
    /\ chans = [p \in Callers \cup Refills |-> <<>>]
    /\ conns = [k \in ConnIds |-> "none"]
    /\ \E n \in Callers :
         procs = [p \in Callers \cup Refills |->
                     IF p <= n THEN Proc("GetMySQL") ELSE Proc("off")]
    /\ input = <<>> /\ pager = <<>>

\* What a step of the pool leaves alone.
PoolFrame == op' = "pool" /\ UNCHANGED <<decvars, maxPoolSize, input, pager>>

\* make(chan *sql.DB, maxPoolSize), assigned to mySQLPool.
makePool(p) == mySQLPool' = p /\ UNCHANGED chans

\* GetMySQL, `if mySQLPool == nil`: the read of the variable.
GetMySQL(c) ==
    /\ procs[c].pc = "GetMySQL"
    /\ procs' = [procs EXCEPT ![c].pc = IF mySQLPool = 0 THEN "make" ELSE "len"]
    /\ UNCHANGED <<mySQLPool, chans, conns>> /\ PoolFrame

\* GetMySQL, `mySQLPool = make(chan *sql.DB, maxPoolSize)`.
GetMySQLMake(c) ==
    /\ procs[c].pc = "make"
    /\ makePool(c)
    /\ procs' = [procs EXCEPT ![c].pc = "len"]
    /\ UNCHANGED conns /\ PoolFrame

\* GetMySQL, `if len(mySQLPool) == 0 { go func() ... }`.
GetMySQLLen(c) ==
    /\ procs[c].pc = "len"
    /\ procs' = IF ChanLen(mySQLPool) = 0
                THEN [procs EXCEPT ![c].pc = "recv", ![RefillOf(c)].pc = "Open"]
                ELSE [procs EXCEPT ![c].pc = "recv"]
    /\ UNCHANGED <<mySQLPool, chans, conns>> /\ PoolFrame

\* GetMySQL, `<-mySQLPool`: the channel operand is evaluated.
GetMySQLRecv(c) ==
    /\ procs[c].pc = "recv"
    /\ procs' = [procs EXCEPT ![c].pc = "wait", ![c].ch = mySQLPool]
    /\ UNCHANGED <<mySQLPool, chans, conns>> /\ PoolFrame

\* GetMySQL, `return <-mySQLPool`: the receive, which blocks while the
\* channel is empty.
GetMySQLReturn(c) ==
    /\ procs[c].pc = "wait"
    /\ ChanLen(procs[c].ch) > 0
    /\ procs' = [procs EXCEPT ![c].pc = "got", ![c].ch = 0,
                              ![c].conn = Head(chans[procs[c].ch])]
    /\ chans' = [chans EXCEPT ![procs[c].ch] = Tail(@)]
    /\ UNCHANGED <<mySQLPool, conns>> /\ PoolFrame

\* DbAction after GetMySQL: dbAction(db) runs and the deferred db.Close()
\* closes the connection.
DbAction(c) ==
    /\ procs[c].pc = "got"
    /\ conns' = [conns EXCEPT ![procs[c].conn] = "closed"]
    /\ procs' = [procs EXCEPT ![c].pc = "done"]
    /\ UNCHANGED <<mySQLPool, chans>> /\ PoolFrame

\* The goroutine of GetMySQL, `i < maxPoolSize/2` is false: it ends.
RefillEnd(g) ==
    /\ procs[g].pc = "Open"
    /\ procs[g].i >= maxPoolSize \div 2
    /\ procs' = [procs EXCEPT ![g] = Proc("done")]
    /\ UNCHANGED <<mySQLPool, chans, conns>> /\ PoolFrame

\* The goroutine of GetMySQL, sql.Open returns a connection.
RefillOpen(g) ==
    /\ procs[g].pc = "Open"
    /\ procs[g].i < maxPoolSize \div 2
    /\ conns' = [conns EXCEPT ![ConnOf(g, procs[g].i)] = "open"]
    /\ procs' = [procs EXCEPT ![g].pc = "putMySQL", ![g].conn = ConnOf(g, procs[g].i)]
    /\ UNCHANGED <<mySQLPool, chans>> /\ PoolFrame

\* The goroutine of GetMySQL, sql.Open returns an error: `continue`.
RefillOpenFails(g) ==
    /\ procs[g].pc = "Open"
    /\ procs[g].i < maxPoolSize \div 2
    /\ procs' = [procs EXCEPT ![g].i = @ + 1]
    /\ UNCHANGED <<mySQLPool, chans, conns>> /\ PoolFrame

\* putMySQL, `if mySQLPool == nil { mySQLPool = make(...) }`: the read of
\* the variable, and, had it read nil, the make as a step of its own.  The
\* goroutine is started by a GetMySQL that has set the variable, and
\* nothing sets it back to nil, so the read never finds nil.
PutMySQL(g) ==
    /\ procs[g].pc \in {"putMySQL", "pmake"}
    /\ IF procs[g].pc = "pmake"
       THEN makePool(g) /\ procs' = [procs EXCEPT ![g].pc = "plen"]
       ELSE /\ UNCHANGED <<mySQLPool, chans>>
            /\ procs' = [procs EXCEPT ![g].pc = IF mySQLPool = 0 THEN "pmake" ELSE "plen"]
    /\ UNCHANGED conns /\ PoolFrame

\* putMySQL, `len(mySQLPool) == maxPoolSize`.
poolFull(n) == n = maxPoolSize

\* putMySQL, `if len(mySQLPool) == maxPoolSize { conn.Close(); return }`:
\* the connection is closed, or the send is next.
PutMySQLLen(g) ==
    /\ procs[g].pc = "plen"
    /\ IF poolFull(ChanLen(mySQLPool))
       THEN /\ conns' = [conns EXCEPT ![procs[g].conn] = "closed"]
            /\ procs' = [procs EXCEPT ![g].pc = "Open", ![g].i = @ + 1, ![g].conn = 0]
       ELSE /\ procs' = [procs EXCEPT ![g].pc = "send"]
            /\ UNCHANGED conns
    /\ UNCHANGED <<mySQLPool, chans>> /\ PoolFrame

\* putMySQL, `mySQLPool <- conn`: the channel operand is evaluated.
PutMySQLSend(g) ==
    /\ procs[g].pc = "send"
    /\ procs' = [procs EXCEPT ![g].pc = "sending", ![g].ch = mySQLPool]
    /\ UNCHANGED <<mySQLPool, chans, conns>> /\ PoolFrame

\* putMySQL, `mySQLPool <- conn`: the send, which blocks while the channel
\* is full; the goroutine then goes on with its loop.
PutMySQLSent(g) ==
    /\ procs[g].pc = "sending"
    /\ ChanLen(procs[g].ch) < ChanCap(procs[g].ch)
    /\ chans' = [chans EXCEPT ![procs[g].ch] = Append(@, procs[g].conn)]
    /\ procs' = [procs EXCEPT ![g].pc = "Open", ![g].i = @ + 1, ![g].conn = 0,
                              ![g].ch = 0]
    /\ UNCHANGED <<mySQLPool, conns>> /\ PoolFrame

CallerStep(c) ==
    \/ GetMySQL(c) \/ GetMySQLMake(c) \/ GetMySQLLen(c)
    \/ GetMySQLRecv(c) \/ GetMySQLReturn(c) \/ DbAction(c)

RefillStep(g) ==
    \/ RefillEnd(g) \/ RefillOpen(g)
    \/ PutMySQL(g) \/ PutMySQLLen(g) \/ PutMySQLSend(g) \/ PutMySQLSent(g)

NextPool ==
    \/ \E c \in Callers : CallerStep(c)
    \/ \E g \in Refills : RefillStep(g) \/ RefillOpenFails(g)

SpecPool == InitPool /\ [][NextPool]_vars

\* sql.Open succeeds, and a goroutine that can run does: the Go scheduler
\* leaves no runnable goroutine waiting for ever.
NextPoolFair ==
    \/ \E c \in Callers : CallerStep(c)
    \/ \E g \in Refills : RefillStep(g)

SpecPoolFair ==
    /\ InitPool /\ [][NextPoolFair]_vars
    /\ \A c \in Callers : WF_vars(CallerStep(c))
    /\ \A g \in Refills : WF_vars(RefillStep(g))

\* The connection that the caller c got is back in the pool: open, and
\* buffered in the channel of mySQLPool.
Released(c) ==
    /\ conns[procs[c].conn] = "open"
    /\ mySQLPool # 0
    /\ \E k \in 1..ChanLen(mySQLPool) : chans[mySQLPool][k] = procs[c].conn

\* C23: when DbAction has finished, the connection it acquired with
\* GetMySQL is released back into the pool channel, where a later GetMySQL
\* finds it.
C23_ReleasedWhenFinished ==
    \A c \in Callers : procs[c].pc = "done" => Released(c)

\* A goroutine is blocked in the send of putMySQL.
SendBlocked(g) ==
    /\ procs[g].pc = "sending"
    /\ ChanLen(procs[g].ch) >= ChanCap(procs[g].ch)

\* C24: under every interleaving of the callers and their goroutines no
\* channel of the pool holds more than maxPoolSize connections, and
\* putMySQL never blocks: no goroutine stands at its send before a full
\* channel.
C24_BoundedAndNeverBlocks ==
    /\ \A p \in Callers \cup Refills : Len(chans[p]) <= maxPoolSize
    /\ \A g \in Refills : ~SendBlocked(g)

\* GetMySQL has returned a connection to the caller c.
Returned(c) == procs[c].pc \in {"got", "done"}

\* C25: when sql.Open succeeds and the scheduler is fair, every call of
\* GetMySQL returns a connection, whatever maxPoolSize >= 1 and however
\* many callers there are.
C25_EveryGetMySQLReturns ==
    \A c \in Callers : (procs[c].pc = "GetMySQL") ~> Returned(c)

(***************************************************************************)
(* DbTransactionAction.  The callers take their connection with GetMySQL   *)
(* as above; what follows is one step for each call the function makes.    *)
(* The results are unnamed, so `return x, err` returns the value that the  *)
(* variable err has there, and the deferred function reads the same        *)
(* variable.                                                               *)
(***************************************************************************)
Outcomes == {"nil", "error"}

\* `tx, err := db.Begin()`: on an error the function returns before the
\* rollback is deferred, and only the deferred db.Close() is left.
Begin(c) ==
    /\ procs[c].pc = "got"
    /\ \E o \in Outcomes :
         procs' = IF o = "error"
                  THEN [procs EXCEPT ![c].pc = "dclose", ![c].err = "Begin"]
                  ELSE [procs EXCEPT ![c].pc = "txAction"]
    /\ UNCHANGED <<mySQLPool, chans, conns>> /\ PoolFrame

\* `actionResult, err := txAction(tx)`, and the return on its error.
TxAction(c) ==
    /\ procs[c].pc = "txAction"
    /\ \E o \in Outcomes :
         procs' = IF o = "error"
                  THEN [procs EXCEPT ![c].pc = "deferred", ![c].err = "txAction",
                                     ![c].calls = Append(@, "txAction")]
                  ELSE [procs EXCEPT ![c].pc = "Commit",
                                     ![c].calls = Append(@, "txAction")]
    /\ UNCHANGED <<mySQLPool, chans, conns>> /\ PoolFrame

\* `if err = tx.Commit(); err != nil { return ... }`.
Commit(c) ==
    /\ procs[c].pc = "Commit"
    /\ \E o \in Outcomes :
         procs' = IF o = "error"
                  THEN [procs EXCEPT ![c].pc = "deferred", ![c].err = "Commit",
                                     ![c].calls = Append(@, "Commit")]
                  ELSE [procs EXCEPT ![c].pc = "Close", ![c].committed = TRUE,
                                     ![c].calls = Append(@, "Commit")]
    /\ UNCHANGED <<mySQLPool, chans, conns>> /\ PoolFrame

\* `if err = db.Close(); err != nil { return ... }`, else
\* `return actionResult, err`.
Close(c) ==
    /\ procs[c].pc = "Close"
    /\ conns' = [conns EXCEPT ![procs[c].conn] = "closed"]
    /\ \E o \in Outcomes :
         procs' = [procs EXCEPT ![c].pc = "deferred",
                                ![c].err = IF o = "error" THEN "Close" ELSE "nil"]
    /\ UNCHANGED <<mySQLPool, chans>> /\ PoolFrame

\* The deferred function: `if err != nil && tx != nil { tx.Rollback() }`;
\* tx is not nil once Begin has succeeded.
Rollback(c) ==
    /\ procs[c].pc = "deferred"
    /\ procs' = IF procs[c].err # "nil"
                THEN [procs EXCEPT ![c].pc = "dclose",
                                   ![c].calls = Append(@, "Rollback")]
                ELSE [procs EXCEPT ![c].pc = "dclose"]
    /\ UNCHANGED <<mySQLPool, chans, conns>> /\ PoolFrame

\* `defer db.Close()`, and the function has returned err.
DeferredClose(c) ==
    /\ procs[c].pc = "dclose"
    /\ conns' = [conns EXCEPT ![procs[c].conn] = "closed"]
    /\ procs' = [procs EXCEPT ![c].pc = "done"]
    /\ UNCHANGED <<mySQLPool, chans>> /\ PoolFrame

DbTransactionAction(c) ==
    \/ GetMySQL(c) \/ GetMySQLMake(c) \/ GetMySQLLen(c)
    \/ GetMySQLRecv(c) \/ GetMySQLReturn(c)
    \/ Begin(c) \/ TxAction(c) \/ Commit(c) \/ Close(c)
    \/ Rollback(c) \/ DeferredClose(c)

TxCallers == 2       \* most concurrent callers of DbTransactionAction

\* The callers of DbTransactionAction, with a pool that serves them all.
InitTx ==
    /\ InitPool
    /\ maxPoolSize = MaxPool
    /\ \A c \in Callers : c > TxCallers => procs[c].pc = "off"

\* sql.Open succeeds.
NextTx ==
    \/ \E c \in Callers : DbTransactionAction(c)
    \/ \E g \in Refills : RefillStep(g)

SpecTx == InitTx /\ [][NextTx]_vars

Invoked(c, m) == \E k \in 1..Len(procs[c].calls) : procs[c].calls[k] = m

\* C26: when DbTransactionAction has returned, Commit was invoked iff
\* txAction returned no error, Rollback was invoked iff txAction returned an
\* error, not both were invoked, and a non-nil error result means that the
\* transaction is not committed.
C26_CommitXorRollback ==
    \A c \in Callers :
        procs[c].pc = "done" =>
            LET ran == Invoked(c, "txAction")
                failed == ran /\ ~Invoked(c, "Commit") /\ procs[c].err = "txAction"
            IN  /\ Invoked(c, "Commit") <=> (ran /\ ~failed)
                /\ Invoked(c, "Rollback") <=> failed
                /\ ~(Invoked(c, "Commit") /\ Invoked(c, "Rollback"))
                /\ procs[c].err # "nil" => ~procs[c].committed

(***************************************************************************)
(* buildPager and the row offset of DbPage.  Numbers are kept as the       *)
(* runtime keeps them, in bytes, the most significant first: an int is the *)
(* IntSize(arch) / 8 bytes of its two's complement, and a float64 is       *)
(* [m, e, neg], the value m * 2^e, negated if neg, with m of at most 53    *)
(* bits (or 2^53 itself, when rounding reached it).  Bits are counted from *)
(* 0, the least significant.                                               *)
(***************************************************************************)
\* What the quotient st of a * 2^k by b rounds to.
Quotient(st, e) == Round53(st.q, e, ~IsZeroBytes(st.r))

\* a / b for float64 a and b > 0: the dividend is scaled by 2^k so that the
\* quotient has 55 bits or more, and the quotient is rounded; the sign is
\* that of a.
FloatDivBy(a, b, k) ==
    Signed(Quotient(DivMod(Shift(a.m, k, 15), b.m), a.e - b.e - k), a.neg)

FloatDiv(a, b) ==
    IF IsZeroBytes(a.m) THEN a
    ELSE FloatDivBy(a, b, 55 + BitLen(b.m) - BitLen(a.m))

\* math.Ceil(f): the sign and the magnitude, a whole number in 9 bytes.  The
\* magnitude of a negative f loses its fraction.
Ceil(f) ==
    [neg |-> f.neg,
     m |-> IF ~f.neg /\ f.e < 0 /\ AnyBelow(f.m, -f.e)
           THEN IncB(Shift(f.m, f.e, 9))
           ELSE Shift(f.m, f.e, 9)]

\* int(v) for a float64 v that is a whole number.  From -2^(w-1) to below
\* 2^(w-1), w the width of int, it is v; outside the result is
\* implementation-dependent (Go specification, Conversions): the indefinite
\* integer 0x80..0 of the x86 conversion instructions, the saturated bound
\* on arm64.
ToInt(v, a) ==
    IF BitLen(v.m) < IntSize(a)
    THEN IF v.neg THEN NegB(Widen(v.m, IntSize(a) \div 8)) ELSE Widen(v.m, IntSize(a) \div 8)
    ELSE IF a = "arm64" /\ ~v.neg THEN <<127>> \o Invert(ZeroBytes(IntSize(a) \div 8 - 1))
    ELSE <<128>> \o ZeroBytes(IntSize(a) \div 8 - 1)

IntLen(a) == IntSize(a) \div 8
OneInt(a) == Widen(<<1>>, IntLen(a))

\* buildPager, `if pageId < 1 { pageId = 1 }`.
pageFloor(pageId, a) == IF LessInt(pageId, OneInt(a)) THEN OneInt(a) ELSE pageId

\* buildPager, `if recPerPage < 1 { recPerPage = 10 }`.
perPage(recPerPage, a) ==
    IF LessInt(recPerPage, OneInt(a)) THEN Widen(<<10>>, IntLen(a)) ELSE recPerPage

\* buildPager, `int(math.Ceil(float64(total) / float64(recPerPage)))`.
totalPage(recPerPage, total, a) ==
    ToInt(Ceil(FloatDiv(Float64(total), Float64(recPerPage))), a)

\* buildPager, `if pageId > totalPage { pageId = totalPage }` and then
\* `if total == 0 { pageId = 1 }`.
pageCap(pageId, tp, total, a) ==
    IF IsZeroBytes(total) THEN OneInt(a)
    ELSE IF LessInt(tp, pageId) THEN tp ELSE pageId

\* buildPager on the ints of the architecture a.
pagerOf(pageId, recPerPage, total, a) ==
    [PageId |-> pageCap(pageFloor(pageId, a),
                        totalPage(perPage(recPerPage, a), total, a), total, a),
     RecPerPage |-> perPage(recPerPage, a),
     Total |-> total]

\* buildPager(pageId, recPerPage, total).
pagerInts(p) ==
    [PageId |-> IntOf(p.PageId), RecPerPage |-> IntOf(p.RecPerPage), Total |-> IntOf(p.Total)]

buildPager(pageId, recPerPage, total, a) ==
    pagerInts(pagerOf(IntBytes(pageId, IntLen(a)), IntBytes(recPerPage, IntLen(a)),
                      IntBytes(total, IntLen(a)), a))

\* DbPage, `(pager.PageId-1)*pager.RecPerPage`, in the arithmetic of int.
rowOffset(p, a) ==
    IntOf(MulB(SubB(IntBytes(p.PageId, IntLen(a)), OneInt(a)),
               IntBytes(p.RecPerPage, IntLen(a))))

\* DbPage, the parameters appended for " limit ?,?".
limitParams(p, a) == <<rowOffset(p, a), p.RecPerPage>>

MaxInt(a) == IF IntSize(a) = 32 THEN MaxInt32 ELSE MaxInt64

\* The arguments tried.  2^53 + 1 and 2^53 + 3 are the first ints that
\* float64 does not hold; 2^53 + 4 is a page beyond them.
PageIds(a) ==
    {Neg(<<1>>), Zero, Pos(<<1>>), Pos(<<3>>), MaxInt(a)}
    \cup (IF IntSize(a) = 64 THEN {Pos(<<9,0,0,7,1,9,9,2,5,4,7,4,0,9,9,6>>)} ELSE {})

RecPerPages(a) ==
    {Neg(<<1>>), Zero, Pos(<<1>>), Pos(<<3>>), Pos(<<1,0>>), MaxInt(a)}

Totals(a) ==
    {Neg(<<2,1>>), Neg(<<1>>), Zero, Pos(<<1>>), Pos(<<1,0>>), Pos(<<2,1>>), MaxInt(a)}
    \cup (IF IntSize(a) = 64
          THEN {Pos(<<9,0,0,7,1,9,9,2,5,4,7,4,0,9,9,3>>), Pos(<<9,0,0,7,1,9,9,2,5,4,7,4,0,9,9,5>>)}
          ELSE {})

\* The arguments: any pageId and recPerPage, and as total what strconv.Atoi
\* made of the count that the count query returned.
InitPager ==
    /\ arch \in Archs /\ order = 0
    /\ typ = Idle /\ res = Idle /\ pre = Idle /\ out = Idle /\ err = Idle
    /\ fields = <<>> /\ got = Idle
    /\ str = <<>> /\ key = <<>>
    /\ alias = {}
    /\ op = "init"
    /\ mySQLPool = 0 /\ chans = <<>> /\ maxPoolSize = 0
    /\ procs = <<>> /\ conns = <<>>
    /\ \E p \in PageIds(arch), r \in RecPerPages(arch), t \in Totals(arch) :
         input = [pageId |-> p, recPerPage |-> r, total |-> t]
    /\ pager = <<>>

\* buildPager(pageId, recPerPage, total)
BuildPager ==
    /\ op = "init"
    /\ op' = "buildPager"
    /\ pager' = [pager |-> buildPager(input.pageId, input.recPerPage, input.total, arch),
                 params |-> <<>>, err |-> "nil"]
    /\ UNCHANGED <<decvars, mySQLPool, chans, maxPoolSize, procs, conns, input>>

\* What a query of DbPage comes to: DbQuery returns the rows ("nil"), or the
\* error of stmt.Query or of rowsToMap ("err"), or it panics: `defer
\* stmt.Close()` stands before the test of the error of db.Prepare, so that
\* after a Prepare that failed Close is called on a nil *sql.Stmt.
QueryOutcomes == {"nil", "err", "panic"}

\* The nil *Pager of an error return.
NilPager == [nil |-> TRUE]

\* DbPage(db, countSql, dataSql, countParams, params, pageId, recPerPage) up
\* to the return of the count query (DbQueryOne): its error is returned
\* before anything is built, and a panic ends the call; else the pager is
\* built from the total and the parameters of " limit ?,?" are appended to
\* those of the data query, which is sent.
Sent(p) == [pager |-> p, params |-> limitParams(p, arch), err |-> "nil"]

DbPageCount ==
    /\ op = "init"
    /\ \E o \in QueryOutcomes :
         /\ op' = IF o = "nil" THEN "DbQuery" ELSE "DbPage"
         /\ pager' =
              CASE o = "err" -> [pager |-> NilPager, params |-> <<>>, err |-> "DbQueryOne"]
                [] o = "panic" -> [pager |-> NilPager, params |-> <<>>, err |-> "panic"]
                [] OTHER ->
                     Sent(buildPager(input.pageId, input.recPerPage, input.total, arch))
    /\ UNCHANGED <<decvars, mySQLPool, chans, maxPoolSize, procs, conns, input>>

\* DbPage from the return of the data query (DbQuery) on: its error is
\* returned with a nil pager, and a panic ends the call; else the rows are
\* returned with the pager, built once more from the same arguments.
DbPageData ==
    /\ op = "DbQuery"
    /\ op' = "DbPage"
    /\ \E o \in QueryOutcomes :
         pager' =
           CASE o = "err" -> [pager EXCEPT !.pager = NilPager, !.err = "DbQuery"]
             [] o = "panic" -> [pager EXCEPT !.pager = NilPager, !.err = "panic"]
             [] OTHER ->
                  [pager EXCEPT
                     !.pager = buildPager(input.pageId, input.recPerPage, input.total, arch)]
    /\ UNCHANGED <<decvars, mySQLPool, chans, maxPoolSize, procs, conns, input>>

NextPager == BuildPager \/ DbPageCount \/ DbPageData

SpecPager == InitPager /\ [][NextPager]_vars


\* (PageId - 1) * RecPerPage as a number, not as an int.
ProductOf(p) ==
    IntOf(MulB(SubB(IntBytes(p.PageId, 17), Widen(<<1>>, 17)), IntBytes(p.RecPerPage, 17)))

\* PageId <= max(1, ceil(Total / RecPerPage))
WithinPages(p) == p.PageId = Pos(<<1>>) \/ Less(ProductOf(p), p.Total)

\* C28: for every pageId and recPerPage and every total >= 0 the pager that
\* DbPage returns has RecPerPage >= 1, and 10 when recPerPage < 1; Total = total;
\* 1 <= PageId <= max(1, ceil(Total / RecPerPage)); and the row offset that
\* DbPage appends is not negative and, when Total > 0, smaller than Total.
C28_PagerWithinBounds ==
    (op = "DbPage" /\ pager.err = "nil" /\ ~Less(input.total, Zero)) =>
        /\ ~Less(pager.pager.RecPerPage, Pos(<<1>>))
        /\ Less(input.recPerPage, Pos(<<1>>)) => pager.pager.RecPerPage = Pos(<<1,0>>)
        /\ pager.pager.Total = input.total
        /\ ~Less(pager.pager.PageId, Pos(<<1>>))
        /\ WithinPages(pager.pager)
        /\ ~Less(pager.params[1], Zero)
        /\ ~IsZero(input.total) => Less(pager.params[1], input.total)

\* The same on the ints that float64 holds exactly.
C28_Below2To53 ==
    (Less(input.total, Pos(<<9,0,0,7,1,9,9,2,5,4,7,4,0,9,9,3>>))) => C28_PagerWithinBounds
====
